---- MODULE Spec2Model ----
(***************************************************************************)
(* Model of the forwarding pipeline of src/forward.py: the per-user        *)
(* inbound-message handler (_hot_message_handler), the filter engine, the  *)
(* bounded asyncio send queue, the send workers and the resolution cache.  *)
(*                                                                         *)
(* Scheduling.  Everything runs on one asyncio event loop, so a coroutine  *)
(* runs without interleaving from one suspension to the next.  Each action *)
(* below is one such run.  "await q.put(x)" suspends only when the queue   *)
(* is full and "await q.get()" only when it is empty; the network calls    *)
(* (get_input_entity, send_message, forward_messages) and asyncio.sleep    *)
(* always suspend.  A coroutine suspended in put()/get() is woken by the   *)
(* queue and re-tests full()/empty() when it runs again; the model lets    *)
(* any such coroutine run again whenever its test would pass.              *)
(***************************************************************************)
EXTENDS Naturals, Integers, Sequences, FiniteSets, TLC

VARIABLES
    send_workers_started,  \* _send_workers_started (send_queue is None iff FALSE)
    send_queue,            \* the items of the asyncio.Queue, head first
    workers,               \* worker id -> [pc, job, wait, sleep, requeued]
    cancelled,             \* shutdown_cleanup has cancelled the worker tasks
    tasks_cache,           \* user id -> list of tasks (a dict: DOMAIN = its keys)
    tasks_settings,        \* user id -> (label -> settings)
    target_entity_cache,   \* user id -> set of resolved target ids
    user_clients,          \* user id -> session handle
    handler_registered,    \* user id -> session handle the listener is attached to
    restore_pending,       \* users restore_sessions still has to restore
    suspended,             \* handler invocations suspended in send_queue.put
    listeners,             \* [user, client]: the user's listener is attached to client
    connected,             \* session handles that are connected
    dereg,                 \* the logout confirmation / removal in progress
    resolvers,             \* user id -> the resolve_targets_for_user task of its restore
    \* history variables (not program state)
    next_id,               \* identity given to the next job tuple created
    events_seen,           \* number of inbound events delivered so far
    floods_seen,           \* number of FloodWaitErrors raised so far
    last_run,              \* the latest handler invocation that returned
    dropped,               \* ids of jobs a worker dropped after a failure
    delivered,             \* ids of jobs whose send or relay returned normally
    resolve_log,           \* <<user, target>> -> the get_input_entity calls made for it
    logins,                \* number of completed sign-ins
    gone,                  \* users deregistered and not signed in since
    prefix_suffix_states,  \* user id -> label of the task whose prefix/suffix is collected
    bot,                   \* the settings update in progress (awaiting its database write)
    db_written,            \* <<user, label>> -> settings of the latest update_task_settings that succeeded
    callbacks,             \* history: the latest update the bot handled, and how many
    filter_call,           \* the latest direct call of the filter function and its result
    login_states,          \* user id -> the client of the user's /login in progress
    delete_states,         \* user id -> label of the task the user was asked to name
    forwadd_states,        \* user id -> step of the user's /forwadd in progress
    confirm_shown          \* <<user, label>>: a delete confirmation keyboard was sent

vars == <<send_workers_started, send_queue, workers, cancelled, tasks_cache,
          tasks_settings, target_entity_cache, user_clients, handler_registered,
          restore_pending, suspended, next_id, events_seen, floods_seen, last_run,
          dropped, delivered, listeners, connected, dereg, resolvers, resolve_log,
          logins, gone, prefix_suffix_states, bot, db_written, callbacks,
          filter_call, login_states, delete_states, forwadd_states, confirm_shown>>

\* the conversations in progress and the keyboards waiting in the chats
flowVars == <<login_states, delete_states, forwadd_states, confirm_shown>>

\* the state of the settings menus and of the direct filter calls
uiVars == <<prefix_suffix_states, bot, db_written, callbacks, filter_call, flowVars>>

-----------------------------------------------------------------------------
(* Bounds of the model *)

\* capacity of the send queue (SEND_QUEUE_MAXSIZE, 10000 unless the
\* environment sets it)
SEND_QUEUE_MAXSIZE == 2

\* number of send workers (SEND_WORKER_COUNT, 15 unless the environment sets it)
SEND_WORKER_COUNT == 2

\* inbound events delivered in one behaviour
MaxEvents == 1

\* largest wait-seconds value a FloodWaitError carries
MaxWait == 0

\* FloodWaitErrors raised in one behaviour
MaxFloods == 1

\* the worker tasks created so far (worker_tasks)
WorkerIds == DOMAIN workers
WaitHints == 0..MaxWait

-----------------------------------------------------------------------------
(* Texts are sequences of one-character strings *)

Hello == <<"h", "e", "l", "l", "o">>
Blank == <<" ">>

IsSpace(c) == c = " "

RECURSIVE LStrip(_)
LStrip(t) == IF t # <<>> /\ IsSpace(Head(t)) THEN LStrip(Tail(t)) ELSE t

RECURSIVE RStrip(_)
RStrip(t) ==
    IF t # <<>> /\ IsSpace(t[Len(t)]) THEN RStrip(SubSeq(t, 1, Len(t) - 1)) ELSE t

\* str.strip()
Strip(t) == RStrip(LStrip(t))

-----------------------------------------------------------------------------
(* Settings *)

_make_default_task_settings ==
    [outgoing |-> TRUE, forward_tag |-> TRUE, control |-> TRUE,
     filters |-> [raw_text |-> FALSE, numbers_only |-> FALSE,
                  alphabets_only |-> FALSE, removed_alphabetic |-> FALSE,
                  removed_numeric |-> FALSE, add_prefix_suffix |-> FALSE],
     prefix |-> <<>>, suffix |-> <<>>]

Digits == {"0", "1", "2", "3", "4", "5", "6", "7", "8", "9"}
Letters == {"a", "b", "c", "d", "e", "f", "g", "h", "i", "j", "k", "l", "m",
            "n", "o", "p", "q", "r", "s", "t", "u", "v", "w", "x", "y", "z"}
IsDigit(c) == c \in Digits
IsAlpha(c) == c \in Letters

\* re.search(pattern, text): a Match object or None
ReSearch(class, text) ==
    IF \E i \in 1..Len(text) : text[i] \in class THEN "Match" ELSE "None"

\* any(x) raises TypeError unless x is iterable; a Match object and None are not
AnyRaises(x) == x \in {"Match", "None"}

\* re.split(r"\s+", text) of a stripped text: its whitespace-delimited tokens
RECURSIVE Tokens(_, _)
Tokens(t, cur) ==
    IF t = <<>> THEN (IF cur = <<>> THEN <<>> ELSE <<cur>>)
    ELSE IF IsSpace(Head(t))
         THEN (IF cur = <<>> THEN <<>> ELSE <<cur>>) \o Tokens(Tail(t), <<>>)
         ELSE Tokens(Tail(t), Append(cur, Head(t)))

\* str.isalpha() / str.isdigit()
TokIsAlpha(tok) == tok # <<>> /\ \A i \in 1..Len(tok) : IsAlpha(tok[i])
TokIsDigit(tok) == tok # <<>> /\ \A i \in 1..Len(tok) : IsDigit(tok[i])

\* [tok for tok in tokens if tok.isalpha()] (kind "alpha") or tok.isdigit()
RECURSIVE SelectToks(_, _)
SelectToks(toks, kind) ==
    IF toks = <<>> THEN <<>>
    ELSE (IF (kind = "alpha" /\ TokIsAlpha(Head(toks)))
             \/ (kind = "digit" /\ TokIsDigit(Head(toks)))
          THEN <<Head(toks)>> ELSE <<>>)
         \o SelectToks(Tail(toks), kind)

\* the "deduplicate preserving order" loop
RECURSIVE Dedup(_, _)
Dedup(rs, seen) ==
    IF rs = <<>> THEN <<>>
    ELSE IF Head(rs) \in seen THEN Dedup(Tail(rs), seen)
         ELSE <<Head(rs)>> \o Dedup(Tail(rs), seen \cup {Head(rs)})

\* a faulty variant of AddPrefixSuffix (sensitivity of C30): a space between
\* a prefix and the line
AddPrefixSuffixSpaced(lines, prefix, suffix) ==
    [i \in 1..Len(lines) |->
        prefix \o (IF prefix = <<>> THEN <<>> ELSE <<" ">>) \o lines[i] \o suffix]

\* the "apply prefix/suffix" loop: runs whatever add_prefix_suffix says
AddPrefixSuffix(lines, prefix, suffix) ==
    [i \in 1..Len(lines) |-> prefix \o lines[i] \o suffix]

\* The filter results of the non-raw_text branch, given has_digit, has_alpha
FilterResults(fs, text, has_digit, has_alpha) ==
    LET tokens == Tokens(text, <<>>) IN
       (IF fs.numbers_only /\ has_digit THEN <<text>> ELSE <<>>)
    \o (IF fs.alphabets_only /\ has_alpha /\ ~has_digit THEN <<text>> ELSE <<>>)
    \o (IF fs.removed_alphabetic /\ has_alpha
        THEN SelectToks(tokens, "alpha") ELSE <<>>)
    \o (IF fs.removed_numeric /\ has_digit
        THEN SelectToks(tokens, "digit") ELSE <<>>)

\* a faulty variant of _apply_filters_and_prefix_suffix (sensitivity of C26):
\* raw_text is one filter among the others, its result joined to theirs
RawTextAmongOthers(message_text, settings) ==
    LET fs   == settings.filters
        text == Strip(message_text)
        has_digit == \E i \in 1..Len(text) : IsDigit(text[i])
        has_alpha == \E i \in 1..Len(text) : IsAlpha(text[i])
        results == (IF fs.raw_text THEN <<text>> ELSE <<>>)
                   \o FilterResults(fs, text, has_digit, has_alpha)
    IN  [raised |-> FALSE,
         out |-> AddPrefixSuffix(Dedup(results, {}), settings.prefix, settings.suffix)]

\* _apply_filters_and_prefix_suffix: [raised, out].  With raw_text off,
\* has_digit = any(re.search(r"\d", text)) is evaluated first and raises.
_apply_filters_and_prefix_suffix(message_text, settings) ==
    LET fs     == settings.filters
        text   == Strip(message_text)
        digitm == ReSearch(Digits, text)
        alpham == ReSearch(Letters, text)
        final(results) ==
            AddPrefixSuffix(Dedup(results, {}), settings.prefix, settings.suffix)
    IN  IF fs.raw_text
        THEN [raised |-> FALSE, out |-> final(<<text>>)]
        ELSE IF AnyRaises(digitm) \/ AnyRaises(alpham)
             THEN [raised |-> TRUE, out |-> <<>>]
             ELSE [raised |-> FALSE,
                   out |-> final(FilterResults(fs, text, digitm = "Match",
                                               alpham = "Match"))]

-----------------------------------------------------------------------------
(* Persisted data read at startup (db.get_all_active_tasks, the users table) *)

Users == {1, 2}

RawText(fwd) ==
    [_make_default_task_settings EXCEPT !.forward_tag = fwd,
                                        !.filters.raw_text = TRUE]

DbTask(label, sources, targets, settings) ==
    [label |-> label, source_ids |-> sources, target_ids |-> targets,
     settings |-> settings]

\* Each snapshot: the active tasks of every user, and the logged-in users.
DbSnapshots ==
    { \* one task with the relay-original settings and two targets
      [tasks |-> (1 :> <<DbTask("A", {100}, <<200, 300>>, RawText(TRUE))>>),
       logged_in |-> {1}],
      \* two tasks on one source: text lines with a prefix, then a relay
      [tasks |-> (1 :> <<DbTask("A", {100}, <<200, 300>>,
                                [RawText(FALSE) EXCEPT !.prefix = <<">">>]),
                         DbTask("B", {100}, <<300>>, RawText(TRUE))>>),
       logged_in |-> {1}],
      \* three tasks on one source, the second with the default settings
      [tasks |-> (1 :> <<DbTask("A", {100}, <<200>>, RawText(FALSE)),
                         DbTask("B", {100}, <<300>>, _make_default_task_settings),
                         DbTask("C", {100}, <<300>>, RawText(TRUE))>>),
       logged_in |-> {1}],
      \* two users; user 2 does not forward its own messages and has switched
      \* its second task off
      [tasks |-> (1 :> <<DbTask("A", {100}, <<200>>, RawText(TRUE))>>)
                 @@ (2 :> <<DbTask("A", {101}, <<300>>,
                            [RawText(FALSE) EXCEPT !.outgoing = FALSE]),
                            DbTask("B", {101}, <<200>>,
                            [RawText(TRUE) EXCEPT !.control = FALSE])>>),
       logged_in |-> {1, 2}] }

-----------------------------------------------------------------------------
(* Python dicts are functions; DOMAIN is the key set *)

EmptyDict == <<>>

\* d.setdefault(k, v)
SetDefault(d, k, v) == IF k \in DOMAIN d THEN d ELSE d @@ (k :> v)

\* d[k] = v
DictSet(d, k, v) == [x \in DOMAIN d \cup {k} |-> IF x = k THEN v ELSE d[x]]

\* d.pop(k, None)
DictPop(d, k) == [x \in DOMAIN d \ {k} |-> d[x]]

\* a faulty variant of GetOrCreate (sensitivity of C22): the defaults are
\* stored over an existing entry
GetOrCreateOverwrites(ts, user_id, label) ==
    LET store == [SetDefault(ts, user_id, EmptyDict) EXCEPT
                    ![user_id] = DictSet(@, label, _make_default_task_settings)]
    IN  [store |-> store, settings |-> store[user_id][label]]

\* tasks_settings.setdefault(user_id, {}).setdefault(label,
\* _make_default_task_settings()): the store afterwards and the settings
\* returned
GetOrCreate(ts, user_id, label) ==
    LET store == [SetDefault(ts, user_id, EmptyDict) EXCEPT
                    ![user_id] = SetDefault(@, label, _make_default_task_settings)]
    IN  [store |-> store, settings |-> store[user_id][label]]

-----------------------------------------------------------------------------
(* The send queue and its jobs *)

\* a faulty variant of QueueFull (sensitivity of C2): a queue that takes one
\* item more than its maxsize
QueueFullOffByOne(q) == Len(q) > SEND_QUEUE_MAXSIZE

\* asyncio.Queue(maxsize=SEND_QUEUE_MAXSIZE).full()
QueueFull(q) == Len(q) >= SEND_QUEUE_MAXSIZE

\* payload: an output line, or ("__FORWARD_ORIG__", message)
TextPayload(om) == [kind |-> "text", body |-> om]
OrigPayload(message) == [kind |-> "orig", body |-> message]

\* the tuple (user_id, client, target_id, payload); id tells tuples apart
Job(id, user_id, client, target_id, payload) ==
    [id |-> id, user_id |-> user_id, client |-> client,
     target_id |-> target_id, payload |-> payload]

NoJob == Job(0, 0, 0, 0, [kind |-> "none", body |-> <<>>])

\* a faulty variant of RelayOriginal (sensitivity of C11): forward_tag is not
\* consulted
RelayIgnoresForwardTag(settings, out_messages) ==
    settings.filters.raw_text /\ Len(out_messages) = 1

\* a faulty variant of RelayOriginal (sensitivity of C9): the length test the
\* wrong way round
RelayOriginalManyLines(settings, out_messages) ==
    settings.forward_tag /\ settings.filters.raw_text /\ Len(out_messages) > 1

\* the condition of line 1320 for relaying the original message
RelayOriginal(settings, out_messages) ==
    settings.forward_tag /\ settings.filters.raw_text /\ Len(out_messages) = 1

-----------------------------------------------------------------------------
(* _hot_message_handler.  A frame h is one invocation: at "task" it is at  *)
(* the top of the task loop with task index ti, at "target" at the top of  *)
(* the target loop with target index gi, at "relay" / "line" at the put of *)
(* line 1321 / 1324 (line index li).  HandlerRun runs a frame until it     *)
(* returns, raises into the outer except, or finds the queue full at a put *)
(* (and stays suspended there).  s = [h, q, ts, nid]: the frame, the queue,*)
(* tasks_settings and the next job identity.                               *)
(***************************************************************************)

\* a faulty variant of Skips (sensitivity of C12): the outgoing toggle is not
\* consulted
SkipsOnControlOnly(settings, is_outgoing) == ~settings.control

\* the two toggles that make the task loop continue before the filters run
Skips(settings, is_outgoing) ==
    \/ ~settings.control
    \/ ~settings.outgoing /\ is_outgoing

NewFrame(ev, user_id, client, chat_id, message_text, is_outgoing, user_tasks) ==
    [ev |-> ev, user_id |-> user_id, client |-> client, chat_id |-> chat_id,
     message_text |-> message_text, is_outgoing |-> is_outgoing,
     user_tasks |-> user_tasks, at |-> "task", ti |-> 1, gi |-> 0, li |-> 0,
     settings |-> _make_default_task_settings, out_messages |-> <<>>,
     visited |-> <<>>, emitted |-> <<>>]

NextTask(s) == [s EXCEPT !.h.at = "task", !.h.ti = @ + 1]

\* a faulty variant of NextTarget (sensitivity of C10): the target loop left
\* after its first target
NextTargetBreaks(s) == [s EXCEPT !.h.at = "task", !.h.ti = @ + 1]

NextTarget(s) == [s EXCEPT !.h.at = "target", !.h.gi = @ + 1]

\* a faulty variant of HandlerPut (sensitivity of C36): the tuple is given the
\* first user as its owner
HandlerPutForFirstUser(s, payload) ==
    LET h == s.h
        target_id == h.user_tasks[h.ti].target_ids[h.gi]
        label == h.user_tasks[h.ti].label
    IN  [s EXCEPT !.q = Append(@, Job(s.nid, 1, h.client, target_id, payload)),
                  !.nid = @ + 1,
                  !.h.emitted = Append(@, [label |-> label, target_id |-> target_id,
                                           payload |-> payload])]

\* send_queue.put_nowait of a new tuple, as the handler's put does once there
\* is room
HandlerPut(s, payload) ==
    LET h == s.h
        target_id == h.user_tasks[h.ti].target_ids[h.gi]
        label == h.user_tasks[h.ti].label
    IN  [s EXCEPT !.q = Append(@, Job(s.nid, h.user_id, h.client, target_id, payload)),
                  !.nid = @ + 1,
                  !.h.emitted = Append(@, [label |-> label, target_id |-> target_id,
                                           payload |-> payload])]

RECURSIVE HandlerRun(_)
HandlerRun(s) ==
    LET h == s.h IN
    CASE h.at = "task" ->
           IF h.ti > Len(h.user_tasks) THEN [s EXCEPT !.h.at = "returned"]
           ELSE LET task == h.user_tasks[h.ti] IN
                IF h.chat_id \notin task.source_ids THEN HandlerRun(NextTask(s))
                ELSE
                LET ts == GetOrCreate(s.ts, h.user_id, task.label).store
                    settings == GetOrCreate(s.ts, h.user_id, task.label).settings
                    s1 == [s EXCEPT !.ts = ts,
                                    !.h.visited = Append(@, [label |-> task.label,
                                                             settings |-> settings])]
                    r == _apply_filters_and_prefix_suffix(h.message_text, settings)
                IN  IF Skips(settings, h.is_outgoing) THEN HandlerRun(NextTask(s1))
                    ELSE IF r.raised THEN [s1 EXCEPT !.h.at = "raised"]
                    ELSE IF r.out = <<>> THEN HandlerRun(NextTask(s1))
                    ELSE HandlerRun([s1 EXCEPT !.h.at = "target", !.h.gi = 1,
                                               !.h.settings = settings,
                                               !.h.out_messages = r.out])
      [] h.at = "target" ->
           IF h.gi > Len(h.user_tasks[h.ti].target_ids) THEN HandlerRun(NextTask(s))
           ELSE IF ~send_workers_started THEN HandlerRun(NextTarget(s))
           ELSE IF RelayOriginal(h.settings, h.out_messages)
                THEN HandlerRun([s EXCEPT !.h.at = "relay"])
                ELSE HandlerRun([s EXCEPT !.h.at = "line", !.h.li = 1])
      [] h.at = "relay" ->
           IF QueueFull(s.q) THEN s
           ELSE HandlerRun(NextTarget(HandlerPut(s, OrigPayload(h.message_text))))
      [] h.at = "line" ->
           IF h.li > Len(h.out_messages) THEN HandlerRun(NextTarget(s))
           ELSE IF QueueFull(s.q) THEN s
           ELSE HandlerRun([HandlerPut(s, TextPayload(h.out_messages[h.li]))
                              EXCEPT !.h.li = @ + 1])
      [] OTHER -> s

\* what last_run keeps of a frame that has returned or raised
RunRecord(h) ==
    [result |-> h.at, user_id |-> h.user_id, chat_id |-> h.chat_id,
     message_text |-> h.message_text, is_outgoing |-> h.is_outgoing,
     user_tasks |-> h.user_tasks, visited |-> h.visited, emitted |-> h.emitted]

NoRun ==
    [result |-> "none", user_id |-> 0, chat_id |-> 0, message_text |-> <<>>,
     is_outgoing |-> FALSE, user_tasks |-> <<>>, visited |-> <<>>,
     emitted |-> <<>>]

Suspended(h) == h.at \in {"relay", "line"}

\* the state after a handler run that ended in frame s.h
AfterHandlerRun(s, others) ==
    /\ send_queue' = s.q
    /\ tasks_settings' = s.ts
    /\ next_id' = s.nid
    /\ suspended' = IF Suspended(s.h) THEN others \cup {s.h} ELSE others
    /\ last_run' = IF Suspended(s.h) THEN last_run ELSE RunRecord(s.h)

-----------------------------------------------------------------------------
(* send_worker_loop.  pc of a worker: "get" (suspended in send_queue.get), *)
(* "resolving" (in get_input_entity called by resolve_target_entity_once), *)
(* "sending" (in send_message / forward_messages), "sleeping" (in the      *)
(* FloodWait sleep), "putting" (suspended in the re-enqueueing put),       *)
(* "stopped" (the loop has ended).                                         *)
(***************************************************************************)

\* History of the external resolver, kept in the behaviours that start with
\* resolve_log.on.  resolve_log.pairs[<<user, target>>] tells how the first
\* get_input_entity call made for the pair ended ("pending" until it does, by
\* being its caller meanwhile) and, unless it failed, whether the resolver
\* has been called for the pair again.
WorkerCaller(w) == [kind |-> "worker", id |-> w]
PreCaller(user_id) == [kind |-> "pre", id |-> user_id]
NoCaller == [kind |-> "none", id |-> 0]

LogCall(log, pair, by) ==
    IF ~log.on THEN log
    ELSE IF pair \notin DOMAIN log.pairs
    THEN [log EXCEPT !.pairs = @ @@ (pair :> [first |-> "pending", by |-> by,
                                              again |-> FALSE])]
    ELSE IF log.pairs[pair].first = "failed" THEN log
    ELSE [log EXCEPT !.pairs[pair].again = TRUE]

LogReturn(log, pair, by, outcome) ==
    IF /\ pair \in DOMAIN log.pairs
       /\ log.pairs[pair].by = by
       /\ log.pairs[pair].first = "pending"
    THEN [log EXCEPT !.pairs[pair] = [first |-> outcome, by |-> NoCaller,
                                      again |-> outcome = "ok" /\ @.again]]
    ELSE log

\* requeued: the id of the job the worker put back at the end of its previous
\* iteration, 0 when it put none back (a history field)
\* wait: the seconds of the FloodWaitError caught; sleep: the delay given to
\* asyncio.sleep, which returns once that many time units have passed
Worker(pc, job, wait, sleep) ==
    [pc |-> pc, job |-> job, wait |-> wait, sleep |-> sleep, requeued |-> 0]

\* orig_message is None
IsNone(message) == message = <<>>

\* a faulty variant of WorkerLoop (sensitivity of C19): the job is read from
\* the head of the queue and left there
WorkerLoopPeeks(s) ==
    IF s.q = <<>> THEN [s EXCEPT !.wk = Worker("get", NoJob, 0, 0)]
    ELSE LET job == Head(s.q)
         IN  IF job.payload.kind = "orig"
             THEN IF IsNone(job.payload.body)
                  THEN [s EXCEPT !.q = Tail(@), !.wk = Worker("get", NoJob, 0, 0)]
                  ELSE [s EXCEPT !.wk = Worker("sending", job, 0, 0)]
             ELSE IF /\ job.user_id \in DOMAIN s.cache
                     /\ job.target_id \in s.cache[job.user_id]
                  THEN [s EXCEPT !.wk = Worker("sending", job, 0, 0)]
                  ELSE [s EXCEPT !.wk = Worker("resolving", job, 0, 0),
                                 !.cache = SetDefault(@, job.user_id, {}),
                                 !.log = LogCall(@, <<job.user_id, job.target_id>>,
                                                 WorkerCaller(s.id))]

\* where the worker suspends once it holds job: the relay branch awaits
\* forward_messages; the text branch reads the cache and, on a miss, enters
\* resolve_target_entity_once, which creates the user's cache dict and awaits
\* get_input_entity
RECURSIVE WorkerLoop(_)
WorkerLoop(s) ==
    IF s.q = <<>> THEN [s EXCEPT !.wk = Worker("get", NoJob, 0, 0)]
    ELSE LET job == Head(s.q)
             s1  == [s EXCEPT !.q = Tail(@)]
         IN  IF job.payload.kind = "orig"
             THEN IF IsNone(job.payload.body) THEN WorkerLoop(s1)
                  ELSE [s1 EXCEPT !.wk = Worker("sending", job, 0, 0)]
             ELSE IF /\ job.user_id \in DOMAIN s.cache
                     /\ job.target_id \in s.cache[job.user_id]
                  THEN [s1 EXCEPT !.wk = Worker("sending", job, 0, 0)]
                  ELSE [s1 EXCEPT !.wk = Worker("resolving", job, 0, 0),
                                  !.cache = SetDefault(@, job.user_id, {}),
                                  !.log = LogCall(@, <<job.user_id, job.target_id>>,
                                                  WorkerCaller(s.id))]

WorkerState(w) == [id |-> w, q |-> send_queue, wk |-> workers[w],
                   cache |-> target_entity_cache, log |-> resolve_log]

\* the worker's resolver call has ended with outcome
Resolved(w, outcome) ==
    [WorkerState(w) EXCEPT
        !.log = LogReturn(@, <<workers[w].job.user_id, workers[w].job.target_id>>,
                          WorkerCaller(w), outcome)]

AfterWorkerRun(w, s) ==
    /\ send_queue' = s.q
    /\ workers' = [workers EXCEPT ![w] = s.wk]
    /\ target_entity_cache' = s.cache
    /\ resolve_log' = s.log

\* a faulty variant of SleepTime (sensitivity of C3): no extra second
SleepTimeNoMargin(wait) == wait

\* asyncio.sleep(wait + 1)
SleepTime(wait) == wait + 1

\* a faulty variant of Reenqueue (sensitivity of C5): the job put back in
\* front of the queued jobs
ReenqueueAtHead(s) ==
    [WorkerLoop([s EXCEPT !.q = <<s.wk.job>> \o @]) EXCEPT
        !.wk.requeued = s.wk.job.id]

\* the worker's put of the tuple it took, then the top of the loop
Reenqueue(s) ==
    [WorkerLoop([s EXCEPT !.q = Append(@, s.wk.job)]) EXCEPT
        !.wk.requeued = s.wk.job.id]

\* a faulty variant of AfterFailure (sensitivity of C6): the failed job put
\* back on the queue
AfterFailureRetries(s) == WorkerLoop([s EXCEPT !.q = Append(@, s.wk.job)])

\* a faulty variant of AfterFailure (sensitivity of C8): the exception ends
\* the worker loop
AfterFailureStops(s) == [s EXCEPT !.wk.pc = "stopped"]

\* the finally clause after a job that was dropped, then the top of the loop
AfterFailure(s) == WorkerLoop(s)

\* a faulty variant of AfterSuccess (sensitivity of C35): the sent job put
\* back on the queue
AfterSuccessRequeues(s) == WorkerLoop([s EXCEPT !.q = Append(@, s.wk.job)])

\* the finally clause after a job that was sent, then the top of the loop
AfterSuccess(s) == WorkerLoop(s)

handlerVars == <<tasks_cache, tasks_settings, user_clients, handler_registered,
                 restore_pending, suspended, next_id, events_seen, last_run,
                 listeners, connected, dereg, resolvers, logins, gone, uiVars>>

workerHistory == <<floods_seen, dropped, delivered>>

\* send_queue.get() returns to a worker suspended in it
Dequeue(w) ==
    /\ ~cancelled
    /\ workers[w].pc = "get"
    /\ send_queue # <<>>
    /\ AfterWorkerRun(w, WorkerLoop(WorkerState(w)))
    /\ UNCHANGED <<send_workers_started, cancelled, handlerVars, dropped, delivered, floods_seen>>

\* get_input_entity returns an entity: it is cached and send_message is awaited.
\* (When the user's cache dict has been removed meanwhile, the store raises
\* KeyError and resolve_target_entity_once returns None.)
ResolveReturns(w) ==
    LET job == workers[w].job IN
    /\ ~cancelled
    /\ workers[w].pc = "resolving"
    /\ IF job.user_id \in DOMAIN target_entity_cache
       THEN /\ target_entity_cache' =
                  [target_entity_cache EXCEPT ![job.user_id] = @ \cup {job.target_id}]
            /\ workers' = [workers EXCEPT ![w].pc = "sending"]
            /\ resolve_log' = Resolved(w, "ok").log
            /\ UNCHANGED <<send_queue, dropped>>
       ELSE /\ AfterWorkerRun(w, AfterFailure(Resolved(w, "ok")))
            /\ dropped' = dropped \cup {job.id}
    /\ UNCHANGED <<send_workers_started, cancelled, handlerVars, delivered, floods_seen>>

\* a faulty variant of ResolveFails (sensitivity of C15): the failure is
\* remembered in the cache
ResolveFailsCached(w) ==
    /\ ~cancelled
    /\ workers[w].pc = "resolving"
    /\ AfterWorkerRun(w, AfterFailure(
          [Resolved(w, "failed") EXCEPT
              !.cache = [SetDefault(@, workers[w].job.user_id, {}) EXCEPT
                           ![workers[w].job.user_id] = @ \cup {workers[w].job.target_id}]]))
    /\ dropped' = dropped \cup {workers[w].job.id}
    /\ UNCHANGED <<send_workers_started, cancelled, handlerVars, delivered, floods_seen>>

\* get_input_entity raises: resolve_target_entity_once returns None and the
\* worker skips the send
ResolveFails(w) ==
    /\ ~cancelled
    /\ workers[w].pc = "resolving"
    /\ AfterWorkerRun(w, AfterFailure(Resolved(w, "failed")))
    /\ dropped' = dropped \cup {workers[w].job.id}
    /\ UNCHANGED <<send_workers_started, cancelled, handlerVars, delivered, floods_seen>>

\* send_message / forward_messages returns (a disconnected client raises
\* ConnectionError instead)
SendReturns(w) ==
    /\ ~cancelled
    /\ workers[w].pc = "sending"
    /\ workers[w].job.client \in connected
    /\ AfterWorkerRun(w, AfterSuccess(WorkerState(w)))
    /\ delivered' = delivered \cup {workers[w].job.id}
    /\ UNCHANGED <<send_workers_started, cancelled, handlerVars, dropped, floods_seen>>

\* send_message / forward_messages raises FloodWaitError(seconds): the worker
\* starts asyncio.sleep(seconds + 1)
FloodWaitRaised(w, seconds) ==
    /\ ~cancelled
    /\ workers[w].pc = "sending"
    /\ floods_seen' = floods_seen + 1
    /\ workers' = [workers EXCEPT ![w].pc = "sleeping", ![w].wait = seconds,
                                  ![w].sleep = SleepTime(seconds)]
    /\ UNCHANGED <<send_workers_started, send_queue, cancelled, target_entity_cache,
                   handlerVars, dropped, delivered, resolve_log>>

\* at most MaxFloods rate limits in one behaviour
SendFloodWait(w, seconds) ==
    /\ floods_seen < MaxFloods
    /\ FloodWaitRaised(w, seconds)

\* at most one rate limit per worker of the pool in one behaviour
SendFloodWaitEach(w, seconds) ==
    /\ floods_seen < SEND_WORKER_COUNT
    /\ FloodWaitRaised(w, seconds)

\* send_message / forward_messages raises any other exception
SendFails(w) ==
    /\ ~cancelled
    /\ workers[w].pc = "sending"
    /\ AfterWorkerRun(w, AfterFailure(WorkerState(w)))
    /\ dropped' = dropped \cup {workers[w].job.id}
    /\ UNCHANGED <<send_workers_started, cancelled, handlerVars, delivered, floods_seen>>

\* asyncio.sleep returns: await send_queue.put(job), which suspends on a full
\* queue
SleepReturns(w) ==
    /\ ~cancelled
    /\ workers[w].pc = "sleeping"
    /\ IF QueueFull(send_queue)
       THEN /\ workers' = [workers EXCEPT ![w].pc = "putting"]
            /\ UNCHANGED <<send_queue, target_entity_cache, resolve_log>>
       ELSE AfterWorkerRun(w, Reenqueue(WorkerState(w)))
    /\ UNCHANGED <<send_workers_started, cancelled, handlerVars, dropped, delivered, floods_seen>>

\* a worker suspended in put runs again once the queue has room
PutReturns(w) ==
    /\ ~cancelled
    /\ workers[w].pc = "putting"
    /\ ~QueueFull(send_queue)
    /\ AfterWorkerRun(w, Reenqueue(WorkerState(w)))
    /\ UNCHANGED <<send_workers_started, cancelled, handlerVars, dropped, delivered, floods_seen>>

-----------------------------------------------------------------------------
(* Startup, session restore, background resolution *)

NewClient(user_id) == 10 * user_id + 1

TaskOf(t) == [label |-> t.label, source_ids |-> t.source_ids,
              target_ids |-> t.target_ids]

\* the settings loop of restore_sessions: a later row of a label overwrites
\* an earlier one; an empty settings dict is replaced by the defaults
SettingsOf(rows) ==
    [l \in {rows[i].label : i \in 1..Len(rows)} |->
        rows[CHOOSE i \in 1..Len(rows) :
               /\ rows[i].label = l
               /\ \A j \in (i + 1)..Len(rows) : rows[j].label # l].settings]

\* a faulty variant of start_send_workers (sensitivity of C20): the started
\* flag is not consulted
start_send_workers_again(st) ==
    [started |-> TRUE, queue |-> st.queue,
     tasks |-> st.tasks \o [i \in 1..SEND_WORKER_COUNT |-> Worker("get", NoJob, 0, 0)]]

\* start_send_workers on st = [started, queue, tasks]: _send_workers_started,
\* the items of send_queue, worker_tasks.  A created worker task runs up to
\* its first send_queue.get()
start_send_workers(st) ==
    IF st.started THEN st
    ELSE [started |-> TRUE, queue |-> st.queue,
          tasks |-> st.tasks \o [i \in 1..SEND_WORKER_COUNT |->
                                    Worker("get", NoJob, 0, 0)]]

WorkerPool == [started |-> send_workers_started, queue |-> send_queue, tasks |-> workers]

\* post_init: start_send_workers, then restore_sessions up to its batches
PostInit(snap) ==
    /\ ~send_workers_started
    /\ ~cancelled
    /\ send_workers_started' = start_send_workers(WorkerPool).started
    /\ send_queue' = start_send_workers(WorkerPool).queue
    /\ workers' = start_send_workers(WorkerPool).tasks
    /\ tasks_cache' = [u \in DOMAIN snap.tasks |->
                         [i \in 1..Len(snap.tasks[u]) |-> TaskOf(snap.tasks[u][i])]]
    /\ tasks_settings' = [u \in DOMAIN snap.tasks |-> SettingsOf(snap.tasks[u])]
    /\ restore_pending' = snap.logged_in
    /\ UNCHANGED <<cancelled, target_entity_cache, user_clients, handler_registered,
                   suspended, next_id, events_seen, last_run, dropped, delivered,
                   floods_seen, listeners, connected, dereg, resolvers, resolve_log,
                   logins, gone, uiVars>>

\* ensure_handler_registered_for_user
ensure_handler_registered_for_user(hr, user_id, client) ==
    IF user_id \in DOMAIN hr THEN hr ELSE DictSet(hr, user_id, client)

\* client.add_event_handler as ensure_handler_registered_for_user calls it
AddEventHandler(ls, hr, user_id, client) ==
    IF user_id \in DOMAIN hr THEN ls ELSE ls \cup {[user |-> user_id, client |-> client]}

\* client.remove_event_handler(handler_registered[user_id]): the callback is
\* removed from this client's list when it is in it
RemoveEventHandler(ls, hr, user_id, client) ==
    IF user_id \in DOMAIN hr /\ hr[user_id] = client
    THEN ls \ {[user |-> user_id, client |-> client]}
    ELSE ls

\* the loop of start_forwarding_for_user over the user's tasks
WithDefaultSettings(ts, tc, user_id) ==
    LET labels == {tc[user_id][i].label : i \in 1..Len(tc[user_id])}
    IN  [ts EXCEPT ![user_id] =
           [l \in DOMAIN @ \cup labels |->
              IF l \in DOMAIN @ THEN @[l] ELSE _make_default_task_settings]]

\* list(set(all_targets)): CPython iterates a set of small ints in slot
\* order, which for the ids of the model is ascending
RECURSIVE SetToList(_)
SetToList(S) ==
    IF S = {} THEN <<>>
    ELSE LET m == CHOOSE x \in S : \A y \in S : x <= y
         IN  <<m>> \o SetToList(S \ {m})

AllTargets(user_tasks) ==
    UNION {{user_tasks[i].target_ids[j] : j \in 1..Len(user_tasks[i].target_ids)} :
           i \in 1..Len(user_tasks)}

\* the number of attempts resolve_targets_for_user makes for a target
RESOLVE_ATTEMPTS == 3

\* a resolve_targets_for_user task.  pc: "new" (created, not yet run), "call"
\* (in get_input_entity for target_ids[ti], attempt number attempt of
\* range(RESOLVE_ATTEMPTS)), "sleep" (in asyncio.sleep after a failed
\* attempt), "done".  History fields: tried[i] counts the calls of
\* resolve_target_entity_once for target_ids[i], won the indices for which
\* one returned an entity
Resolver(target_ids) ==
    [pc |-> "new", client |-> 0, target_ids |-> target_ids, ti |-> 1, attempt |-> 0,
     tried |-> [i \in 1..Len(target_ids) |-> 0], won |-> {}]

\* a faulty variant of RestoreSingleSession (sensitivity of C25): the
\* listener is registered and the pre-resolution is left for later
RestoreListenerFirst(user_id, authorized) ==
    /\ ~cancelled
    /\ user_id \in restore_pending
    /\ restore_pending' = restore_pending \ {user_id}
    /\ connected' = connected \cup {NewClient(user_id)}
    /\ IF authorized
       THEN LET client == NewClient(user_id)
                tc == SetDefault(tasks_cache, user_id, <<>>)
                ts == SetDefault(tasks_settings, user_id, EmptyDict)
                all_targets == IF user_id \in DOMAIN tasks_cache
                               THEN AllTargets(tasks_cache[user_id]) ELSE {}
            IN  /\ user_clients' = DictSet(user_clients, user_id, client)
                /\ target_entity_cache' = SetDefault(target_entity_cache, user_id, {})
                /\ resolvers' = resolvers
                /\ tasks_cache' = tc
                /\ tasks_settings' = WithDefaultSettings(ts, tc, user_id)
                /\ handler_registered' =
                     ensure_handler_registered_for_user(handler_registered, user_id, client)
                /\ listeners' = AddEventHandler(listeners, handler_registered,
                                                user_id, client)
       ELSE UNCHANGED <<user_clients, target_entity_cache, tasks_cache, tasks_settings,
                        handler_registered, listeners, resolvers>>
    /\ UNCHANGED <<send_workers_started, send_queue, workers, cancelled, suspended,
                   next_id, events_seen, last_run, dropped, delivered, floods_seen,
                   dereg, resolve_log, logins, gone, uiVars>>

\* restore_single_session, from the return of is_user_authorized on, with
\* start_forwarding_for_user
RestoreSingleSession(user_id, authorized) ==
    /\ ~cancelled
    /\ user_id \in restore_pending
    /\ restore_pending' = restore_pending \ {user_id}
    /\ connected' = connected \cup {NewClient(user_id)}
    /\ IF authorized
       THEN LET client == NewClient(user_id)
                tc == SetDefault(tasks_cache, user_id, <<>>)
                ts == SetDefault(tasks_settings, user_id, EmptyDict)
                all_targets == IF user_id \in DOMAIN tasks_cache
                               THEN AllTargets(tasks_cache[user_id]) ELSE {}
            IN  /\ user_clients' = DictSet(user_clients, user_id, client)
                /\ target_entity_cache' = SetDefault(target_entity_cache, user_id, {})
                /\ resolvers' = IF all_targets = {} THEN resolvers
                                ELSE DictSet(resolvers, user_id,
                                             Resolver(SetToList(all_targets)))
                /\ tasks_cache' = tc
                /\ tasks_settings' = WithDefaultSettings(ts, tc, user_id)
                /\ handler_registered' =
                     ensure_handler_registered_for_user(handler_registered, user_id, client)
                /\ listeners' = AddEventHandler(listeners, handler_registered,
                                                user_id, client)
       ELSE UNCHANGED <<user_clients, target_entity_cache, tasks_cache, tasks_settings,
                        handler_registered, listeners, resolvers>>
    /\ UNCHANGED <<send_workers_started, send_queue, workers, cancelled, suspended,
                   next_id, events_seen, last_run, dropped, delivered, floods_seen,
                   dereg, resolve_log, logins, gone, uiVars>>

\* the new-message events a session client may deliver to its listener
Event(chat_id, raw_text, out) == [chat_id |-> chat_id, raw_text |-> raw_text, out |-> out]
Events == {Event(100, Hello, FALSE), Event(100, Blank, FALSE),
           Event(101, <<" ", "7">>, FALSE), Event(101, Hello, TRUE)}

\* the session client calls the user's listener with a new message
InboundEvent(user_id, chat_id, message_text, is_outgoing) ==
    /\ ~cancelled
    /\ events_seen < MaxEvents
    /\ events_seen' = events_seen + 1
    /\ \E l \in {x \in listeners : x.user = user_id /\ x.client \in connected} :
       LET user_tasks == IF user_id \in DOMAIN tasks_cache
                         THEN tasks_cache[user_id] ELSE <<>>
           h0 == NewFrame(events_seen + 1, user_id, l.client,
                          chat_id, message_text, is_outgoing, user_tasks)
           h  == IF Strip(message_text) = <<>> \/ user_tasks = <<>>
                 THEN [h0 EXCEPT !.at = "returned"] ELSE h0
       IN  AfterHandlerRun(HandlerRun([h |-> h, q |-> send_queue,
                                       ts |-> tasks_settings, nid |-> next_id]),
                           suspended)
    /\ UNCHANGED <<send_workers_started, workers, cancelled, tasks_cache,
                   target_entity_cache, user_clients, handler_registered,
                   restore_pending, dropped, delivered, floods_seen, listeners,
                   connected, dereg, resolvers, resolve_log, logins, gone, uiVars>>

\* a handler suspended in put runs again once the queue has room
HandlerResumes(h) ==
    /\ ~cancelled
    /\ h \in suspended
    /\ ~QueueFull(send_queue)
    /\ AfterHandlerRun(HandlerRun([h |-> h, q |-> send_queue,
                                   ts |-> tasks_settings, nid |-> next_id]),
                       suspended \ {h})
    /\ UNCHANGED <<send_workers_started, workers, cancelled, tasks_cache,
                   target_entity_cache, user_clients, handler_registered,
                   restore_pending, events_seen, dropped, delivered, floods_seen,
                   listeners, connected, dereg, resolvers, resolve_log, logins, gone, uiVars>>

\* a faulty variant of ShutdownCleanup (sensitivity of C21): the queue is
\* joined before the workers are cancelled, so the queued jobs are sent
ShutdownCleanupDrains ==
    /\ send_workers_started
    /\ ~cancelled
    /\ cancelled' = TRUE
    /\ workers' = [w \in WorkerIds |-> [workers[w] EXCEPT !.pc = "stopped"]]
    /\ send_queue' = <<>>
    /\ delivered' = delivered \cup {send_queue[i].id : i \in DOMAIN send_queue}
    /\ user_clients' = EmptyDict
    /\ UNCHANGED <<send_workers_started, tasks_cache, tasks_settings,
                   target_entity_cache, restore_pending, suspended, next_id,
                   events_seen, last_run, dropped, floods_seen, dereg,
                   resolvers, resolve_log, logins, gone, uiVars, handler_registered,
                   listeners, connected>>

\* shutdown_cleanup: the worker tasks are cancelled, the listener of every
\* user with a session handle is removed from that handle and the handle
\* disconnected; nothing runs afterwards
ShutdownCleanup ==
    /\ send_workers_started
    /\ ~cancelled
    /\ cancelled' = TRUE
    /\ workers' = [w \in WorkerIds |-> [workers[w] EXCEPT !.pc = "stopped"]]
    /\ handler_registered' = [u \in DOMAIN handler_registered \ DOMAIN user_clients |->
                                handler_registered[u]]
    /\ listeners' = {l \in listeners :
                        ~(/\ l.user \in DOMAIN user_clients
                          /\ l.user \in DOMAIN handler_registered
                          /\ user_clients[l.user] = l.client
                          /\ handler_registered[l.user] = l.client)}
    /\ connected' = connected \ {user_clients[u] : u \in DOMAIN user_clients}
    /\ user_clients' = EmptyDict
    /\ UNCHANGED <<send_workers_started, send_queue, tasks_cache, tasks_settings,
                   target_entity_cache, restore_pending, suspended, next_id,
                   events_seen, last_run, dropped, delivered, floods_seen, dereg,
                   resolvers, resolve_log, logins, gone, uiVars>>

-----------------------------------------------------------------------------
(* resolve_targets_for_user.  A run st = [user_id, r, cache, log] goes from  *)
(* the top of an attempt to the next suspension of the task.                 *)
(***************************************************************************)

\* break: on to the next target
NextDestination(r) == [r EXCEPT !.ti = @ + 1, !.attempt = 0]

\* resolve_target_entity_once is called for target_ids[ti]: a cached entity is
\* returned at once, otherwise get_input_entity is awaited
RECURSIVE PreAttempt(_)
PreAttempt(st) ==
    LET r == st.r IN
    IF r.ti > Len(r.target_ids) THEN [st EXCEPT !.r.pc = "done"]
    ELSE LET tid   == r.target_ids[r.ti]
             cache == SetDefault(st.cache, st.user_id, {})
             r1    == [r EXCEPT !.tried[r.ti] = @ + 1]
         IN  IF tid \in cache[st.user_id]
             THEN PreAttempt([st EXCEPT !.cache = cache,
                                        !.r = NextDestination([r1 EXCEPT !.won = @ \cup {r.ti}])])
             ELSE [st EXCEPT !.cache = cache,
                             !.r = [r1 EXCEPT !.pc = "call"],
                             !.log = LogCall(@, <<st.user_id, tid>>, PreCaller(st.user_id))]

\* a faulty variant of AfterPreSleep (sensitivity of C16): a failed target is
\* retried without a limit on the attempts
AfterPreSleepUnlimited(st) == PreAttempt([st EXCEPT !.r.attempt = 0])

\* asyncio.sleep has returned: the next attempt of range(RESOLVE_ATTEMPTS), or
\* the next target after the last one
AfterPreSleep(st) ==
    IF st.r.attempt + 1 < RESOLVE_ATTEMPTS
    THEN PreAttempt([st EXCEPT !.r.attempt = @ + 1])
    ELSE PreAttempt([st EXCEPT !.r = NextDestination(@)])

PreState(user_id) ==
    [user_id |-> user_id, r |-> resolvers[user_id], cache |-> target_entity_cache,
     log |-> resolve_log]

AfterPreRun(user_id, st) ==
    /\ resolvers' = [resolvers EXCEPT ![user_id] = st.r]
    /\ target_entity_cache' = st.cache
    /\ resolve_log' = st.log

preVars == <<send_workers_started, send_queue, workers, cancelled, tasks_cache,
             tasks_settings, user_clients, handler_registered, restore_pending,
             suspended, next_id, events_seen, floods_seen, last_run, dropped,
             delivered, listeners, connected, dereg, logins, gone, uiVars>>

\* the task created by restore_single_session runs for the first time
PreStart(user_id) ==
    /\ ~cancelled
    /\ user_id \in DOMAIN resolvers
    /\ resolvers[user_id].pc = "new"
    /\ IF user_id \in DOMAIN user_clients
       THEN AfterPreRun(user_id,
                PreAttempt([PreState(user_id) EXCEPT !.r.client = user_clients[user_id]]))
       ELSE /\ resolvers' = [resolvers EXCEPT ![user_id].pc = "done"]
            /\ UNCHANGED <<target_entity_cache, resolve_log>>
    /\ UNCHANGED preVars

\* get_input_entity returns an entity: it is stored and the target loop goes
\* on; when the user's cache dict is gone the store raises KeyError, None is
\* returned and the task sleeps
PreResolveReturns(user_id) ==
    /\ ~cancelled
    /\ user_id \in DOMAIN resolvers
    /\ resolvers[user_id].pc = "call"
    /\ LET st  == PreState(user_id)
           r   == st.r
           tid == r.target_ids[r.ti]
           log == LogReturn(resolve_log, <<user_id, tid>>, PreCaller(user_id), "ok")
       IN  IF user_id \in DOMAIN target_entity_cache
           THEN AfterPreRun(user_id,
                    PreAttempt([st EXCEPT
                        !.cache[user_id] = @ \cup {tid},
                        !.log = log,
                        !.r = NextDestination([r EXCEPT !.won = @ \cup {r.ti}])]))
           ELSE AfterPreRun(user_id, [st EXCEPT !.log = log, !.r.pc = "sleep"])
    /\ UNCHANGED preVars

\* get_input_entity raises: None is returned and the task sleeps
\* TARGET_RESOLVE_RETRY_SECONDS
PreResolveFails(user_id) ==
    /\ ~cancelled
    /\ user_id \in DOMAIN resolvers
    /\ resolvers[user_id].pc = "call"
    /\ LET st  == PreState(user_id)
           tid == st.r.target_ids[st.r.ti]
       IN  AfterPreRun(user_id,
               [st EXCEPT !.r.pc = "sleep",
                          !.log = LogReturn(@, <<user_id, tid>>, PreCaller(user_id),
                                            "failed")])
    /\ UNCHANGED preVars

\* the sleep between attempts returns
PreSleepReturns(user_id) ==
    /\ ~cancelled
    /\ user_id \in DOMAIN resolvers
    /\ resolvers[user_id].pc = "sleep"
    /\ AfterPreRun(user_id, AfterPreSleep(PreState(user_id)))
    /\ UNCHANGED preVars

-----------------------------------------------------------------------------
(* Sign-in, logout confirmation, removal of a user.  The bot application    *)
(* handles one update at a time (no concurrent_updates), and fetches none   *)
(* before post_init has returned, so these handlers interleave with the     *)
(* listeners, the workers and the background tasks but not with each other  *)
(* nor with restore_sessions.                                               *)
(***************************************************************************)

\* sessions the server accepts (MAX_CONCURRENT_USERS, 50 unless the environment
\* sets it)
MAX_CONCURRENT_USERS == 2

\* sign-ins completed in one behaviour
MaxLogins == 2

\* the TelegramClient login_command creates for the n-th sign-in
LoginClient(user_id, n) == 10 * user_id + 1 + n

\* dereg: the handler in progress; detach_raised: remove_event_handler raised
NoDereg == [pc |-> "idle", kind |-> "none", user_id |-> 0, client |-> 0,
            detach_raised |-> FALSE]

\* the application is between two updates
BotIdle ==
    /\ send_workers_started
    /\ ~cancelled
    /\ restore_pending = {}
    /\ dereg.pc = "idle"
    /\ bot.pc = "idle"
    /\ \A u \in DOMAIN resolvers : resolvers[u].pc # "new"

sessionRest == <<send_workers_started, send_queue, workers, cancelled, restore_pending,
                 suspended, next_id, events_seen, floods_seen, last_run, dropped,
                 delivered, resolvers, resolve_log>>

\* login_command's capacity check
AtCapacity(uc) == Cardinality(DOMAIN uc) >= MAX_CONCURRENT_USERS

\* login_command: unless the server is at capacity, a new client is created
\* and connected and the user's login conversation starts
LoginCommand(user_id) ==
    /\ BotIdle
    /\ logins < MaxLogins
    /\ ~AtCapacity(user_clients)
    /\ logins' = logins + 1
    /\ connected' = connected \cup {LoginClient(user_id, logins + 1)}
    /\ login_states' = DictSet(login_states, user_id, LoginClient(user_id, logins + 1))
    /\ UNCHANGED <<sessionRest, dereg, gone, tasks_cache, tasks_settings,
                   target_entity_cache, user_clients, handler_registered, listeners,
                   prefix_suffix_states, bot, db_written, callbacks, filter_call,
                   delete_states, forwadd_states, confirm_shown>>

\* handle_login_process after sign_in, get_me and save_user have returned:
\* the new client replaces the user's session handle, then
\* start_forwarding_for_user; the login conversation ends
Login(user_id) ==
    /\ BotIdle
    /\ user_id \in DOMAIN login_states
    /\ login_states' = DictPop(login_states, user_id)
    /\ LET client == login_states[user_id]
           tc == SetDefault(tasks_cache, user_id, <<>>)
           ts == SetDefault(tasks_settings, user_id, EmptyDict)
       IN  /\ user_clients' = DictSet(user_clients, user_id, client)
           /\ tasks_cache' = tc
           /\ target_entity_cache' = SetDefault(target_entity_cache, user_id, {})
           /\ tasks_settings' = WithDefaultSettings(ts, tc, user_id)
           /\ handler_registered' =
                ensure_handler_registered_for_user(handler_registered, user_id, client)
           /\ listeners' = AddEventHandler(listeners, handler_registered, user_id, client)
    /\ gone' = gone \ {user_id}
    /\ UNCHANGED <<sessionRest, dereg, logins, connected, prefix_suffix_states, bot,
                   db_written, callbacks, filter_call, delete_states, forwadd_states,
                   confirm_shown>>

\* handle_logout_confirmation (kind "logout") / removeuser_command (kind
\* "remove") up to the first await that follows its checks: with a session
\* handle the listener is removed (remove_event_handler raises or not), the
\* registry entry popped and client.disconnect() awaited; without one
\* save_user is awaited
DeregisterBegin(kind, user_id, detach_raises) ==
    /\ BotIdle
    /\ \/ user_id \in DOMAIN user_clients
       \/ kind = "remove" /\ user_id \in DOMAIN tasks_cache \cup DOMAIN target_entity_cache
    /\ IF user_id \in DOMAIN user_clients
       THEN LET client == user_clients[user_id] IN
            /\ listeners' = IF detach_raises THEN listeners
                            ELSE RemoveEventHandler(listeners, handler_registered,
                                                    user_id, client)
            /\ handler_registered' = DictPop(handler_registered, user_id)
            /\ dereg' = [pc |-> "disconnecting", kind |-> kind, user_id |-> user_id,
                         client |-> client,
                         detach_raised |-> detach_raises /\ user_id \in DOMAIN handler_registered]
       ELSE /\ dereg' = [pc |-> "saving", kind |-> kind, user_id |-> user_id,
                         client |-> 0, detach_raised |-> FALSE]
            /\ UNCHANGED <<listeners, handler_registered>>
    /\ UNCHANGED <<sessionRest, tasks_cache, tasks_settings, target_entity_cache,
                   user_clients, connected, logins, gone, uiVars>>

\* client.disconnect() returns or raises: the finally clause pops the user's
\* session handle, then save_user is awaited
DisconnectEnds(raises) ==
    /\ ~cancelled
    /\ dereg.pc = "disconnecting"
    /\ connected' = IF raises THEN connected ELSE connected \ {dereg.client}
    /\ user_clients' = DictPop(user_clients, dereg.user_id)
    /\ dereg' = [dereg EXCEPT !.pc = "saving"]
    /\ UNCHANGED <<sessionRest, tasks_cache, tasks_settings, target_entity_cache,
                   handler_registered, listeners, logins, gone, uiVars>>

\* save_user returns or raises: the user's task list and resolution cache are
\* popped (removeuser_command pops the registry entry once more)
SaveEnds ==
    /\ ~cancelled
    /\ dereg.pc = "saving"
    /\ tasks_cache' = DictPop(tasks_cache, dereg.user_id)
    /\ target_entity_cache' = DictPop(target_entity_cache, dereg.user_id)
    /\ handler_registered' = IF dereg.kind = "remove"
                             THEN DictPop(handler_registered, dereg.user_id)
                             ELSE handler_registered
    /\ dereg' = NoDereg
    /\ gone' = gone \cup {dereg.user_id}
    /\ UNCHANGED uiVars
    /\ UNCHANGED <<send_workers_started, send_queue, workers, cancelled, restore_pending,
                   suspended, next_id, events_seen, floods_seen, last_run, dropped,
                   delivered, resolvers, tasks_settings, user_clients, listeners,
                   connected, logins, resolve_log>>

-----------------------------------------------------------------------------
(* The specification *)

\* the state after import; logging: whether the resolver's history is kept
\* no settings update in progress; no update handled yet; no direct filter call
NoUpdate == [pc |-> "idle", user_id |-> 0, label |-> "", menu |-> "none"]
NoCallback == [n |-> 0, kind |-> "none", user_id |-> 0, data |-> <<>>]
NoFilterCall == [called |-> FALSE, message_text |-> <<>>,
                 settings |-> _make_default_task_settings,
                 result |-> [raised |-> FALSE, out |-> <<>>]]

-----------------------------------------------------------------------------
(* The settings menus.  Callback data and labels are strings; a callback    *)
(* data string is given by its segments between underscores, and Underscored*)
(* names the string a list of segments joins to.                            *)
(***************************************************************************)

\* updates the bot handles in one behaviour
MaxUpdates == 2

\* updates the bot handles in one behaviour of the delete flow
MaxFlowUpdates == 5

Labels == {"A", "B"}
FilterKeys == {<<"raw", "text">>}

\* "_".join(segs)
Underscored(segs) ==
    CASE Len(segs) = 1 -> segs[1]
      [] segs = <<"raw", "text">> -> "raw_text"
      [] segs = <<"A", "raw">> -> "A_raw"
      [] segs = <<"B", "raw">> -> "B_raw"
      [] segs = <<"toggle", "A", "raw", "text">> -> "toggle_A_raw_text"
      [] segs = <<"toggle", "B", "raw", "text">> -> "toggle_B_raw_text"

\* the buttons of the task menu and of the filters menu (callback_data), and
\* one toggle button with a field the task menu does not have
TaskMenuButtons(label) ==
    {<<"task", "filters", label>>, <<"task", "select", label>>,
     <<"task", "prefixsuffix", label>>}
    \cup {<<"task", "toggle", label, which>> :
             which \in {"outgoing", "forwardtag", "control", "speed"}}
FiltersMenuButtons(label) ==
    {<<"task", "filters", "toggle", label>> \o k : k \in FilterKeys}
Buttons == UNION {TaskMenuButtons(l) \cup FiltersMenuButtons(l) : l \in Labels}

\* a faulty variant of _toggle_task_setting (sensitivity of C23): the
\* outgoing toggle switches the control field as well
_toggle_task_setting_and_control(ts, user_id, label, which) ==
    LET g == GetOrCreate(ts, user_id, label) IN
    CASE which = "outgoing" ->
           [g.store EXCEPT ![user_id][label].outgoing = ~@,
                           ![user_id][label].control = ~@]
      [] which = "forwardtag" ->
           [g.store EXCEPT ![user_id][label].forward_tag = ~@]
      [] which = "control" ->
           [g.store EXCEPT ![user_id][label].control = ~@]
      [] OTHER -> g.store

\* _toggle_task_setting up to its first await: the store afterwards
_toggle_task_setting(ts, user_id, label, which) ==
    LET g == GetOrCreate(ts, user_id, label) IN
    CASE which = "outgoing" ->
           [g.store EXCEPT ![user_id][label].outgoing = ~@]
      [] which = "forwardtag" ->
           [g.store EXCEPT ![user_id][label].forward_tag = ~@]
      [] which = "control" ->
           [g.store EXCEPT ![user_id][label].control = ~@]
      [] OTHER -> g.store

\* _toggle_filter up to its first await: the store afterwards
_toggle_filter(ts, user_id, label, filterkey) ==
    LET g == GetOrCreate(ts, user_id, label) IN
    IF filterkey \in DOMAIN g.settings.filters
    THEN [g.store EXCEPT ![user_id][label].filters[filterkey] = ~@]
    ELSE g.store

\* _send_task_menu: the settings are looked up only for a task of the user
_send_task_menu(ts, tc, user_id, label) ==
    IF /\ user_id \in DOMAIN tc
       /\ \E i \in 1..Len(tc[user_id]) : tc[user_id][i].label = label
    THEN GetOrCreate(ts, user_id, label).store
    ELSE ts

\* _send_filters_menu
_send_filters_menu(ts, user_id, label) == GetOrCreate(ts, user_id, label).store

\* The "task_" branch of button_handler on data = "_".join(segs):
\* parts = data.split("_", 2), action = parts[1], rest = parts[2]; the
\* branches are tried in the order of the code.  [do, label, which]
Route(segs) ==
    LET action == segs[2]
        rest   == SubSeq(segs, 3, Len(segs))
        front  == SubSeq(rest, 1, Len(rest) - 1)
        last   == rest[Len(rest)]
        none   == [do |-> "none", label |-> "", which |-> ""]
    IN  IF Len(segs) < 3 THEN none
        ELSE CASE action = "select" ->
                    [do |-> "task_menu", label |-> Underscored(rest), which |-> ""]
               [] action = "filters" ->
                    [do |-> "filters_menu", label |-> Underscored(rest), which |-> ""]
               [] action = "toggle" ->
                    IF Len(rest) < 2 THEN none
                    ELSE [do |-> "toggle", label |-> Underscored(front), which |-> last]
               [] action = "filters_toggle" ->
                    IF Len(rest) < 2 THEN none
                    ELSE [do |-> "toggle_filter", label |-> Underscored(front),
                          which |-> last]
               [] action = "delete" ->
                    [do |-> "delete", label |-> Underscored(rest), which |-> ""]
               [] action = "prefixsuffix" ->
                    [do |-> "collect", label |-> Underscored(rest), which |-> ""]
               [] action = "confirm" ->
                    IF Len(rest) < 2 THEN none
                    ELSE [do |-> "confirm", label |-> Underscored(front), which |-> last]
               [] OTHER -> none

\* the task list without the tasks of a label
WithoutLabel(tasks, label) == SelectSeq(tasks, LAMBDA t : t.label # label)

\* a faulty variant of ConfirmDelete (sensitivity of C31): the settings entry
\* of the deleted task is kept
ConfirmDeleteKeepsSettings(ts, tc, user_id, label, answer, deleted) ==
    IF answer = "yes" /\ deleted
    THEN [tc |-> IF user_id \in DOMAIN tc
                 THEN [tc EXCEPT ![user_id] = WithoutLabel(@, label)] ELSE tc,
          ts |-> ts]
    ELSE [tc |-> tc, ts |-> ts]

\* the "confirm" branch of button_handler once remove_forwarding_task has
\* returned deleted: [tc, ts]
ConfirmDelete(ts, tc, user_id, label, answer, deleted) ==
    IF answer = "yes" /\ deleted
    THEN [tc |-> IF user_id \in DOMAIN tc
                 THEN [tc EXCEPT ![user_id] = WithoutLabel(@, label)] ELSE tc,
          ts |-> IF user_id \in DOMAIN ts
                 THEN [ts EXCEPT ![user_id] = DictPop(@, label)] ELSE ts]
    ELSE [tc |-> tc, ts |-> ts]

\* button_handler on a "task_" callback, up to the first await after the
\* change (deleted: what remove_forwarding_task returns): [ts, tc, pss, ds, bot]
button_handler(ts, tc, pss, ds, user_id, segs, deleted) ==
    LET r == Route(segs)
        same == [ts |-> ts, tc |-> tc, pss |-> pss, ds |-> ds, bot |-> NoUpdate]
        persisting(menu) == [pc |-> "persisting", user_id |-> user_id,
                             label |-> r.label, menu |-> menu]
    IN  CASE r.do = "task_menu" ->
               [same EXCEPT !.ts = _send_task_menu(ts, tc, user_id, r.label)]
          [] r.do = "filters_menu" ->
               [same EXCEPT !.ts = _send_filters_menu(ts, user_id, r.label)]
          [] r.do = "toggle" ->
               [same EXCEPT !.ts = _toggle_task_setting(ts, user_id, r.label, r.which),
                            !.bot = persisting("task")]
          [] r.do = "toggle_filter" ->
               [same EXCEPT !.ts = _toggle_filter(ts, user_id, r.label, r.which),
                            !.bot = persisting("filters")]
          [] r.do = "delete" ->
               [same EXCEPT !.ds = DictSet(ds, user_id, r.label)]
          [] r.do = "collect" ->
               [same EXCEPT !.pss = DictSet(pss, user_id, r.label)]
          [] r.do = "confirm" ->
               [same EXCEPT
                   !.tc = ConfirmDelete(ts, tc, user_id, r.label, r.which, deleted).tc,
                   !.ts = ConfirmDelete(ts, tc, user_id, r.label, r.which, deleted).ts]
          [] OTHER -> same

\* the variables the settings menus leave alone
menuRest == <<send_workers_started, send_queue, workers, cancelled,
              target_entity_cache, user_clients, handler_registered,
              restore_pending, next_id, events_seen, floods_seen, last_run,
              dropped, delivered, listeners, connected, dereg, resolvers,
              resolve_log, logins, gone, filter_call, login_states>>

\* a handler invocation suspended in put holds the settings dict of its task,
\* not a copy: it sees the store's entry as it is now
SameDict(h, ts) ==
    LET label == h.user_tasks[h.ti].label IN
    IF h.user_id \in DOMAIN ts /\ label \in DOMAIN ts[h.user_id]
    THEN [h EXCEPT !.settings = ts[h.user_id][label]] ELSE h

\* the buttons of the delete flow: Delete of the task menu, Yes and Cancel of
\* the confirmation keyboard
DeleteButtons ==
    {<<"task", "delete", l>> : l \in Labels}
    \cup {<<"task", "confirm", l, a>> : l \in Labels, a \in {"yes", "no"}}

\* button_handler runs on a callback of a button that some message shows: a
\* confirmation button exists once its keyboard was sent to the user
Press(user_id, segs, deleted) ==
    /\ BotIdle
    /\ segs[2] = "confirm" => <<user_id, segs[3]>> \in confirm_shown
    /\ LET r == button_handler(tasks_settings, tasks_cache, prefix_suffix_states,
                               delete_states, user_id, segs, deleted)
       IN  /\ tasks_settings' = r.ts
           /\ tasks_cache' = r.tc
           /\ prefix_suffix_states' = r.pss
           /\ delete_states' = r.ds
           /\ bot' = r.bot
           /\ suspended' = {SameDict(h, r.ts) : h \in suspended}
    /\ callbacks' = [n |-> callbacks.n + 1, kind |-> "callback",
                     user_id |-> user_id, data |-> segs]
    /\ UNCHANGED <<menuRest, db_written, forwadd_states, confirm_shown>>

\* a button of a task menu is pressed
ButtonPress(user_id, segs) ==
    /\ callbacks.n < MaxUpdates
    /\ Press(user_id, segs, FALSE)

\* a button of the delete flow is pressed
DeletePress(user_id, segs, deleted) ==
    /\ callbacks.n < MaxFlowUpdates
    /\ Press(user_id, segs, deleted)

\* forwadd_command of a logged-in user: the task creation conversation starts
ForwaddCommand(user_id) ==
    /\ BotIdle
    /\ callbacks.n < MaxFlowUpdates
    /\ user_id \in DOMAIN user_clients
    /\ forwadd_states' = DictSet(forwadd_states, user_id, [step |-> "waiting_name"])
    /\ callbacks' = [n |-> callbacks.n + 1, kind |-> "command",
                     user_id |-> user_id, data |-> <<"forwadd">>]
    /\ UNCHANGED <<menuRest, tasks_cache, tasks_settings, suspended, bot, db_written,
                   prefix_suffix_states, delete_states, confirm_shown>>

\* the single words a user types: the labels of the tasks and one more
Names == Labels \cup {"C"}

\* handle_login_process on a single word from a user who is neither logging
\* in nor in the prefix/suffix collector: the delete branch comes before the
\* /forwadd branch, in which a word is a valid name and no list of ids
NameMessage(user_id, name) ==
    /\ BotIdle
    /\ callbacks.n < MaxFlowUpdates
    /\ user_id \notin DOMAIN login_states
    /\ user_id \notin DOMAIN prefix_suffix_states
    /\ IF user_id \in DOMAIN delete_states
       THEN /\ IF name = delete_states[user_id]
               THEN /\ confirm_shown' = confirm_shown \cup {<<user_id, name>>}
                    /\ UNCHANGED delete_states
               ELSE /\ delete_states' = DictPop(delete_states, user_id)
                    /\ UNCHANGED confirm_shown
            /\ UNCHANGED forwadd_states
       ELSE /\ forwadd_states' =
                  IF /\ user_id \in DOMAIN forwadd_states
                     /\ forwadd_states[user_id].step = "waiting_name"
                  THEN DictSet(forwadd_states, user_id,
                               [step |-> "waiting_sources", name |-> name])
                  ELSE forwadd_states
            /\ UNCHANGED <<delete_states, confirm_shown>>
    /\ callbacks' = [n |-> callbacks.n + 1, kind |-> "text",
                     user_id |-> user_id, data |-> <<name>>]
    /\ UNCHANGED <<menuRest, tasks_cache, tasks_settings, suspended, bot, db_written,
                   prefix_suffix_states>>

\* the texts a user sends while the prefix/suffix collector is open:
\* "Prefix = <value>", "Suffix = <value>", "Done", anything else
Collected ==
    {[word |-> w, value |-> v] : w \in {"prefix", "suffix"},
                                 v \in {<<>>, <<">">>}}
    \cup {[word |-> "done", value |-> <<>>], [word |-> "other", value |-> <<>>]}

\* handle_login_process for a user in prefix_suffix_states, up to its first
\* await: (.+) needs a value of one character at least
TextMessage(user_id, text) ==
    /\ BotIdle
    /\ callbacks.n < MaxUpdates
    /\ user_id \notin DOMAIN login_states
    /\ user_id \in DOMAIN prefix_suffix_states
    /\ LET label == prefix_suffix_states[user_id]
           g     == GetOrCreate(tasks_settings, user_id, label)
           saved == text.word \in {"prefix", "suffix"} /\ text.value # <<>>
           store == CASE text.word = "prefix" /\ saved ->
                           [g.store EXCEPT ![user_id][label].prefix = text.value]
                      [] text.word = "suffix" /\ saved ->
                           [g.store EXCEPT ![user_id][label].suffix = text.value]
                      [] OTHER -> g.store
       IN  /\ tasks_settings' = store
           /\ suspended' = {SameDict(h, store) : h \in suspended}
           /\ bot' = IF saved
                     THEN [pc |-> "persisting", user_id |-> user_id,
                           label |-> label, menu |-> "none"]
                     ELSE NoUpdate
    /\ prefix_suffix_states' = IF text.word = "done"
                               THEN DictPop(prefix_suffix_states, user_id)
                               ELSE prefix_suffix_states
    /\ callbacks' = [n |-> callbacks.n + 1, kind |-> "text",
                     user_id |-> user_id, data |-> <<text.word>>]
    /\ UNCHANGED <<menuRest, tasks_cache, db_written, delete_states, forwadd_states,
                   confirm_shown>>

\* the outcomes of the awaits that follow a change: the write succeeds, the
\* write raises (logged), or query.answer raised before the write
PersistOutcomes == {"written", "failed", "unanswered"}

\* a faulty variant of PersistEnds (sensitivity of C24): a failed write puts
\* the stored defaults back
PersistEndsReverts(outcome) ==
    /\ bot.pc = "persisting"
    /\ ~cancelled
    /\ db_written' = IF outcome = "written"
                     THEN DictSet(db_written, <<bot.user_id, bot.label>>,
                                  tasks_settings[bot.user_id][bot.label])
                     ELSE db_written
    /\ tasks_settings' = IF outcome = "written" THEN tasks_settings
                         ELSE [tasks_settings EXCEPT ![bot.user_id][bot.label] =
                                  _make_default_task_settings]
    /\ bot' = NoUpdate
    /\ UNCHANGED <<menuRest, tasks_cache, prefix_suffix_states, callbacks, suspended,
                   delete_states, forwadd_states, confirm_shown>>

\* db_call(db.update_task_settings, ...) returns or raises, then the menu is
\* sent again
PersistEnds(outcome) ==
    /\ bot.pc = "persisting"
    /\ ~cancelled
    /\ db_written' = IF outcome = "written"
                     THEN DictSet(db_written, <<bot.user_id, bot.label>>,
                                  tasks_settings[bot.user_id][bot.label])
                     ELSE db_written
    /\ tasks_settings' =
          CASE outcome # "unanswered" /\ bot.menu = "task" ->
                 _send_task_menu(tasks_settings, tasks_cache, bot.user_id, bot.label)
            [] outcome # "unanswered" /\ bot.menu = "filters" ->
                 _send_filters_menu(tasks_settings, bot.user_id, bot.label)
            [] OTHER -> tasks_settings
    /\ bot' = NoUpdate
    /\ UNCHANGED <<menuRest, tasks_cache, prefix_suffix_states, callbacks, suspended,
                   delete_states, forwadd_states, confirm_shown>>

InitWith(logging) ==
    /\ send_workers_started = FALSE
    /\ send_queue = <<>>
    /\ workers = <<>>
    /\ cancelled = FALSE
    /\ tasks_cache = EmptyDict
    /\ tasks_settings = EmptyDict
    /\ target_entity_cache = EmptyDict
    /\ user_clients = EmptyDict
    /\ handler_registered = EmptyDict
    /\ restore_pending = {}
    /\ suspended = {}
    /\ next_id = 1
    /\ events_seen = 0
    /\ floods_seen = 0
    /\ last_run = NoRun
    /\ dropped = {}
    /\ delivered = {}
    /\ listeners = {}
    /\ connected = {}
    /\ dereg = NoDereg
    /\ resolvers = EmptyDict
    /\ resolve_log = [on |-> logging, pairs |-> EmptyDict]
    /\ logins = 0
    /\ gone = {}
    /\ prefix_suffix_states = EmptyDict
    /\ bot = NoUpdate
    /\ db_written = EmptyDict
    /\ callbacks = NoCallback
    /\ filter_call = NoFilterCall
    /\ login_states = EmptyDict
    /\ delete_states = EmptyDict
    /\ forwadd_states = EmptyDict
    /\ confirm_shown = {}

Init == InitWith(FALSE)

Next ==
    \/ \E snap \in DbSnapshots : PostInit(snap)
    \/ \E u \in Users, authorized \in BOOLEAN : RestoreSingleSession(u, authorized)
    \/ \E u \in Users, e \in Events : InboundEvent(u, e.chat_id, e.raw_text, e.out)
    \/ \E h \in suspended : HandlerResumes(h)
    \/ \E w \in WorkerIds : Dequeue(w)
    \/ \E w \in WorkerIds : ResolveReturns(w)
    \/ \E w \in WorkerIds : ResolveFails(w)
    \/ \E w \in WorkerIds : SendReturns(w)
    \/ \E w \in WorkerIds, seconds \in WaitHints : SendFloodWait(w, seconds)
    \/ \E w \in WorkerIds : SendFails(w)
    \/ \E w \in WorkerIds : SleepReturns(w)
    \/ \E w \in WorkerIds : PutReturns(w)
    \/ ShutdownCleanup

Spec == Init /\ [][Next]_vars

\* Persisted data of the resolution behaviours: one user whose task sends
\* text lines to two targets
ResolveSnapshots ==
    { [tasks |-> (1 :> <<DbTask("A", {100}, <<200, 300>>, RawText(FALSE))>>),
       logged_in |-> {1}] }

\* Targets are resolved by the workers and in the background (no
\* FloodWaitError and no sign-in or logout in these behaviours)
ResolveNext ==
    \/ \E snap \in ResolveSnapshots : PostInit(snap)
    \/ \E u \in Users, authorized \in BOOLEAN : RestoreSingleSession(u, authorized)
    \/ \E u \in Users : PreStart(u)
    \/ \E u \in Users : PreResolveReturns(u)
    \/ \E u \in Users : PreResolveFails(u)
    \/ \E u \in Users : PreSleepReturns(u)
    \/ \E u \in Users, e \in Events : InboundEvent(u, e.chat_id, e.raw_text, e.out)
    \/ \E w \in WorkerIds : Dequeue(w)
    \/ \E w \in WorkerIds : ResolveReturns(w)
    \/ \E w \in WorkerIds : ResolveFails(w)
    \/ \E w \in WorkerIds : SendReturns(w)
    \/ \E w \in WorkerIds : SendFails(w)

ResolveInit == InitWith(TRUE)

ResolveSpec == ResolveInit /\ [][ResolveNext]_vars

SessionKinds == {"logout", "remove"}

\* Sessions come and go: restore, sign-in, logout and removal, with the
\* listeners delivering events (the jobs stay queued and the background
\* resolver stays in its first call in these behaviours)
SessionNext ==
    \/ \E snap \in ResolveSnapshots : PostInit(snap)
    \/ \E u \in Users, authorized \in BOOLEAN : RestoreSingleSession(u, authorized)
    \/ \E u \in Users : PreStart(u)
    \/ \E u \in Users : LoginCommand(u)
    \/ \E u \in Users : Login(u)
    \/ \E k \in SessionKinds, u \in Users, detach_raises \in BOOLEAN :
          DeregisterBegin(k, u, detach_raises)
    \/ \E raises \in BOOLEAN : DisconnectEnds(raises)
    \/ SaveEnds
    \/ \E u \in Users, e \in Events : InboundEvent(u, e.chat_id, e.raw_text, e.out)
    \/ ShutdownCleanup

SessionSpec == Init /\ [][SessionNext]_vars

\* the users that talk to the bot in the login behaviours: one more than the
\* server accepts
LoginUsers == 1..(MAX_CONCURRENT_USERS + 1)

\* Users log in and out (no removal, no event): /login and sign-in by any of
\* the users, logout of a user with a session
LoginNext ==
    \/ \E snap \in ResolveSnapshots : PostInit(snap)
    \/ \E u \in Users, authorized \in BOOLEAN : RestoreSingleSession(u, authorized)
    \/ \E u \in Users : PreStart(u)
    \/ \E u \in LoginUsers : LoginCommand(u)
    \/ \E u \in LoginUsers : Login(u)
    \/ \E u \in LoginUsers, detach_raises \in BOOLEAN :
          DeregisterBegin("logout", u, detach_raises)
    \/ \E raises \in BOOLEAN : DisconnectEnds(raises)
    \/ SaveEnds

LoginSpec == Init /\ [][LoginNext]_vars

\* Persisted data of the backpressure behaviours: two tasks of one user relay
\* the messages of one chat to two targets each
BackpressureSnapshots ==
    { [tasks |-> (1 :> <<DbTask("A", {100}, <<200, 300>>, RawText(TRUE)),
                         DbTask("B", {100}, <<200, 300>>, RawText(TRUE))>>),
       logged_in |-> {1}] }

\* the message of the backpressure behaviours
BackpressureEvents == {Event(100, Hello, FALSE)}

\* The queue fills while the workers are rate limited (no shutdown; the send
\* calls return or raise FloodWaitError)
BackpressureNext ==
    \/ \E snap \in BackpressureSnapshots : PostInit(snap)
    \/ \E u \in Users, authorized \in BOOLEAN : RestoreSingleSession(u, authorized)
    \/ \E u \in Users, e \in BackpressureEvents :
          InboundEvent(u, e.chat_id, e.raw_text, e.out)
    \/ \E h \in suspended : HandlerResumes(h)
    \/ \E w \in WorkerIds : Dequeue(w)
    \/ \E w \in WorkerIds : SendReturns(w)
    \/ \E w \in WorkerIds, seconds \in WaitHints : SendFloodWaitEach(w, seconds)
    \/ \E w \in WorkerIds : SleepReturns(w)
    \/ \E w \in WorkerIds : PutReturns(w)

BackpressureSpec == Init /\ [][BackpressureNext]_vars

\* Persisted data of the cache behaviours: one user whose task sends text
\* lines to one target
CacheSnapshots ==
    { [tasks |-> (1 :> <<DbTask("A", {100}, <<200>>, RawText(FALSE))>>),
       logged_in |-> {1}] }

\* A user is logged out or removed while its jobs are queued or in flight
\* and its targets are resolved in the background (no sign-in afterwards)
CacheNext ==
    \/ \E snap \in CacheSnapshots : PostInit(snap)
    \/ \E u \in Users, authorized \in BOOLEAN : RestoreSingleSession(u, authorized)
    \/ \E u \in Users : PreStart(u)
    \/ \E u \in Users : PreResolveReturns(u)
    \/ \E u \in Users : PreResolveFails(u)
    \/ \E u \in Users : PreSleepReturns(u)
    \/ \E k \in SessionKinds, u \in Users, detach_raises \in BOOLEAN :
          DeregisterBegin(k, u, detach_raises)
    \/ \E raises \in BOOLEAN : DisconnectEnds(raises)
    \/ SaveEnds
    \/ \E u \in Users, e \in Events : InboundEvent(u, e.chat_id, e.raw_text, e.out)
    \/ \E w \in WorkerIds : Dequeue(w)
    \/ \E w \in WorkerIds : ResolveReturns(w)
    \/ \E w \in WorkerIds : ResolveFails(w)
    \/ \E w \in WorkerIds : SendReturns(w)
    \/ \E w \in WorkerIds : SendFails(w)

CacheSpec == Init /\ [][CacheNext]_vars

\* The settings menus at work beside the listeners (the jobs stay queued and
\* the background resolver stays in its first call).
\* user 1 with a text task on chat 100 and a relay task on chat 101; user 2
\* has no task
SettingsSnapshots ==
    { [tasks |-> (1 :> <<DbTask("A", {100}, <<200>>, RawText(FALSE)),
                         DbTask("B", {101}, <<300>>, RawText(TRUE))>>),
       logged_in |-> {1}] }

\* a message for the text task and an outgoing message for the relay task
SettingsEvents == {Event(100, Hello, FALSE), Event(101, Hello, TRUE)}

SettingsNext ==
    \/ \E snap \in SettingsSnapshots : PostInit(snap)
    \/ \E u \in Users, authorized \in BOOLEAN : RestoreSingleSession(u, authorized)
    \/ \E u \in Users : PreStart(u)
    \/ \E u \in Users, segs \in Buttons : ButtonPress(u, segs)
    \/ \E u \in Users, text \in Collected : TextMessage(u, text)
    \/ \E outcome \in PersistOutcomes : PersistEnds(outcome)
    \/ \E u \in Users, e \in SettingsEvents : InboundEvent(u, e.chat_id, e.raw_text, e.out)

SettingsSpec == Init /\ [][SettingsNext]_vars

\* The delete flow and the start of the task creation conversation, on the
\* persisted data of the settings behaviours (no inbound event)
DeleteNext ==
    \/ \E snap \in SettingsSnapshots : PostInit(snap)
    \/ \E u \in Users, authorized \in BOOLEAN : RestoreSingleSession(u, authorized)
    \/ \E u \in Users : PreStart(u)
    \/ \E u \in Users, segs \in DeleteButtons, deleted \in BOOLEAN :
          DeletePress(u, segs, deleted)
    \/ \E u \in Users : ForwaddCommand(u)
    \/ \E u \in Users, name \in Names : NameMessage(u, name)

DeleteSpec == Init /\ [][DeleteNext]_vars

-----------------------------------------------------------------------------
(* The filter function called directly on the texts and settings below     *)

\* longest generated text
MaxTextLen == 3

\* the characters of the generated texts: a letter, a digit, a space
FilterAlphabet == {"a", "7", " "}

RECURSIVE TextsUpTo(_)
TextsUpTo(n) ==
    IF n = 0 THEN {<<>>}
    ELSE LET S == TextsUpTo(n - 1)
         IN  S \cup {Append(t, c) : t \in {x \in S : Len(x) = n - 1},
                                    c \in FilterAlphabet}

AbcDef == <<"a", "b", "c", " ", "1", "2", "3", " ", "d", "e", "f">>
AbcNumbers == <<"a", "b", "c", " ", "1", "2", "3", " ", "4", "5", "6">>

FilterTexts == TextsUpTo(MaxTextLen) \cup {Hello, AbcDef, AbcNumbers}

\* settings with every combination of the six filter flags, with and
\* without a prefix and a suffix
FilterSettings ==
    {[_make_default_task_settings EXCEPT !.filters = fs, !.prefix = p, !.suffix = x] :
        fs \in [DOMAIN _make_default_task_settings.filters -> BOOLEAN],
        p \in {<<>>, <<">">>}, x \in {<<>>, <<"!">>}}

filterRest == <<send_workers_started, send_queue, workers, cancelled, tasks_cache,
                tasks_settings, target_entity_cache, user_clients,
                handler_registered, restore_pending, suspended, next_id,
                events_seen, floods_seen, last_run, dropped, delivered, listeners,
                connected, dereg, resolvers, resolve_log, logins, gone,
                prefix_suffix_states, bot, db_written, callbacks, flowVars>>

\* _apply_filters_and_prefix_suffix(message_text, settings) is called
ApplyFilters(message_text, settings) ==
    /\ ~filter_call.called
    /\ filter_call' = [called |-> TRUE, message_text |-> message_text,
                       settings |-> settings,
                       result |-> _apply_filters_and_prefix_suffix(message_text,
                                                                   settings)]
    /\ UNCHANGED filterRest

FilterNext ==
    \E message_text \in FilterTexts, settings \in FilterSettings :
        ApplyFilters(message_text, settings)

FilterSpec == Init /\ [][FilterNext]_vars

-----------------------------------------------------------------------------
(* Vocabulary of the properties *)

Busy == {"resolving", "sending", "sleeping", "putting"}
InLoop == {"get", "resolving", "sending"}

QueueIds == {send_queue[i].id : i \in 1..Len(send_queue)}
HeldIds == {workers[w].job.id : w \in {v \in WorkerIds : workers[v].pc \in Busy}}

\* how many times a job tuple is in the queue or in a worker's hands
Copies(job) ==
    Cardinality({i \in 1..Len(send_queue) : send_queue[i] = job})
    + Cardinality({w \in WorkerIds : workers[w].pc \in Busy /\ workers[w].job = job})

\* worker w's re-enqueueing put returns in this step
Requeues(w) ==
    /\ workers[w].pc \in {"sleeping", "putting"}
    /\ workers'[w].pc \notin {"sleeping", "putting", "stopped"}

\* the jobs one handler run put on the queue for the task labelled label
EmittedFor(run, label) == SelectSeq(run.emitted, LAMBDA e : e.label = label)

TaskLabelled(run, label) ==
    run.user_tasks[CHOOSE i \in 1..Len(run.user_tasks) : run.user_tasks[i].label = label]

\* the k-th task the run evaluated got through its target loop
Completed(run, k) == run.result = "returned" \/ k < Len(run.visited)

\* the settings let the event through to the filter engine
Passes(run, settings) ==
    settings.control /\ (settings.outgoing \/ ~run.is_outgoing)

-----------------------------------------------------------------------------
(* C1..C10 *)

\* C1: a handler that enqueues onto a full send queue drops the job and
\* returns; no handler invocation is ever suspended waiting for queue space.
C1_HandlerNeverWaits == suspended = {}

\* C2: the send queue never holds more than SEND_QUEUE_MAXSIZE jobs.
C2_QueueWithinCapacity == Len(send_queue) <= SEND_QUEUE_MAXSIZE

\* C2 witness: the queue is full while a handler still has a job to enqueue.
C2_FullWithProducerWaiting ==
    Len(send_queue) = SEND_QUEUE_MAXSIZE /\ suspended # {}

\* C3: after a rate-limit signal with wait-seconds w the worker sleeps w + 1,
\* the job is not on the queue while it sleeps, and when its put returns
\* exactly one tuple identical to the one it took is back in the system (on
\* the queue or already taken again), all other jobs being as before.
C3_RequeuedOnceAfterSleep ==
    [][\A w \in WorkerIds :
         /\ workers'[w].pc = "sleeping" =>
              /\ workers'[w].sleep = workers'[w].wait + 1
              /\ workers'[w].job.id \notin QueueIds'
         /\ (workers[w].pc = "sleeping" /\ workers'[w].pc = "putting") =>
              send_queue' = send_queue
         /\ Requeues(w) =>
              /\ Copies(workers[w].job)' = 1
              /\ QueueIds' \cup HeldIds' = QueueIds \cup HeldIds
              /\ Len(send_queue') + Cardinality(HeldIds')
                   = Len(send_queue) + Cardinality(HeldIds)]_vars

\* C3 witness: a job a worker put back after its sleep is on the queue.
C3_RequeuedJobQueued ==
    \E w \in WorkerIds : workers[w].requeued # 0 /\ workers[w].requeued \in QueueIds

\* C4: a worker whose re-enqueue finds the queue full drops the job; no worker
\* is ever suspended waiting for queue space.
C4_WorkerNeverWaits == \A w \in WorkerIds : workers[w].pc # "putting"

\* C5 as claimed: the job a worker processes right after re-enqueueing a
\* rate-limited job is that same job, whatever else is queued.
C5_SameJobNext ==
    [][\A w \in WorkerIds : Requeues(w) => workers'[w].job = workers[w].job]_vars

\* C5 amended: the worker sleeps w + 1, puts the job at the tail of the queue
\* and goes on with the job at the head: the same job exactly when no other
\* job was queued, otherwise the job that was first in the queue.
C5_HeadOfQueueNext ==
    [][\A w \in WorkerIds :
         Requeues(w) =>
           /\ workers[w].sleep = workers[w].wait + 1
           /\ workers'[w].job = IF send_queue = <<>> THEN workers[w].job
                                ELSE Head(send_queue)
           /\ send_queue # <<>> => send_queue'[Len(send_queue')] = workers[w].job]_vars

\* C5 witness: a worker has put a job back and is processing another one.
C5_OtherJobAfterRequeue ==
    \E w \in WorkerIds :
        /\ workers[w].requeued # 0
        /\ workers[w].pc \in {"resolving", "sending"}
        /\ workers[w].job.id # workers[w].requeued

\* C6: a job dropped after a failed resolution or a failed send (other than
\* a rate limit) is never on the queue, in a worker's hands or delivered
\* afterwards.
C6_DroppedNeverRetried ==
    \A id \in dropped : id \notin QueueIds /\ id \notin HeldIds /\ id \notin delivered

\* C6 witness: every job is finished, and a text job's target was never
\* resolved, so that job was dropped unsent.
C6_UnresolvedJobDropped ==
    /\ dropped # {}
    /\ send_queue = <<>>
    /\ suspended = {}
    /\ \A w \in WorkerIds : workers[w].pc = "get"
    /\ \E k \in 1..Len(last_run.emitted) :
          /\ last_run.emitted[k].payload.kind = "text"
          /\ last_run.user_id \in DOMAIN target_entity_cache
          /\ last_run.emitted[k].target_id \notin target_entity_cache[last_run.user_id]

\* C7: when one matching task raises, every task of the user whose sources
\* contain the chat is still evaluated.
C7_RemainingTasksEvaluated ==
    last_run.result = "raised" =>
        \A i \in 1..Len(last_run.user_tasks) :
            last_run.chat_id \in last_run.user_tasks[i].source_ids =>
                \E k \in 1..Len(last_run.visited) :
                    last_run.visited[k].label = last_run.user_tasks[i].label

\* C8: a worker loop ends only when shutdown cancels it; the worker that
\* drops a failed job stays in its loop, and the step changes no other
\* worker, no suspended handler and no listener.
C8_FailuresStopNothing ==
    [][/\ \A w \in WorkerIds :
            (workers[w].pc # "stopped" /\ workers'[w].pc = "stopped")
                => (~cancelled /\ cancelled')
       /\ dropped' # dropped =>
            \E w \in WorkerIds :
                /\ workers[w].pc \in {"resolving", "sending"}
                /\ dropped' = dropped \cup {workers[w].job.id}
                /\ workers'[w].pc \in InLoop
                /\ \A v \in WorkerIds \ {w} : workers'[v] = workers[v]
                /\ suspended' = suspended
                /\ handler_registered' = handler_registered]_vars

\* C8 witness: after a drop every worker is still running and one of them is
\* processing a later job.
C8_RunningAfterDrop ==
    /\ \A w \in WorkerIds : workers[w].pc \in InLoop
    /\ \E w \in WorkerIds, d \in dropped :
          workers[w].pc \in {"resolving", "sending"} /\ d < workers[w].job.id

\* C9 as claimed: a task with forward_tag and raw_text on yields one
\* relay-original job for the event, whatever the number of its targets.
C9_SingleRelayJob ==
    \A k \in 1..Len(last_run.visited) :
        LET v == last_run.visited[k] IN
        (/\ Completed(last_run, k)
         /\ Passes(last_run, v.settings)
         /\ v.settings.forward_tag /\ v.settings.filters.raw_text)
        => /\ Len(EmittedFor(last_run, v.label)) = 1
           /\ EmittedFor(last_run, v.label)[1].payload.kind = "orig"

\* C9 amended: such a task yields one relay-original job per target, in
\* target-list order, each referencing the original message, and no text job.
C9_RelayJobPerTarget ==
    \A k \in 1..Len(last_run.visited) :
        LET v == last_run.visited[k]
            targets == TaskLabelled(last_run, v.label).target_ids
        IN
        (/\ Completed(last_run, k)
         /\ Passes(last_run, v.settings)
         /\ v.settings.forward_tag /\ v.settings.filters.raw_text)
        => EmittedFor(last_run, v.label) =
             [g \in 1..Len(targets) |->
                [label |-> v.label, target_id |-> targets[g],
                 payload |-> [kind |-> "orig", body |-> last_run.message_text]]]

\* C9 witness: a returned run relayed the original to each of two targets.
C9_TwoTargetsRelayed ==
    /\ last_run.result = "returned"
    /\ \E k \in 1..Len(last_run.visited) :
          LET v == last_run.visited[k] IN
          /\ v.settings.forward_tag /\ v.settings.filters.raw_text
          /\ Len(TaskLabelled(last_run, v.label).target_ids) = 2
          /\ Len(EmittedFor(last_run, v.label)) = 2

\* the end-to-end scenario: one task, source 100, targets 200 and 300,
\* raw_text and forward_tag on; "hello" arrives in chat 100, not outgoing
EndToEndRun ==
    /\ last_run.result = "returned"
    /\ last_run.user_tasks =
         <<[label |-> "A", source_ids |-> {100}, target_ids |-> <<200, 300>>]>>
    /\ last_run.visited = <<[label |-> "A", settings |-> RawText(TRUE)]>>
    /\ last_run.chat_id = 100
    /\ last_run.message_text = Hello
    /\ ~last_run.is_outgoing

JobsOf(run) ==
    [k \in 1..Len(run.emitted) |-> <<run.emitted[k].target_id, run.emitted[k].payload>>]

\* C10 as claimed: the scenario yields the text jobs (200, "hello") and
\* (300, "hello").
C10_TwoTextJobs ==
    EndToEndRun =>
        JobsOf(last_run) = << <<200, [kind |-> "text", body |-> Hello]>>,
                              <<300, [kind |-> "text", body |-> Hello]>> >>

\* C10 amended: the scenario yields exactly two jobs, for 200 and for 300 in
\* that order, each a relay of the original message, and no text job.
C10_TwoRelayJobs ==
    EndToEndRun =>
        JobsOf(last_run) = << <<200, [kind |-> "orig", body |-> Hello]>>,
                              <<300, [kind |-> "orig", body |-> Hello]>> >>

\* C10 witness: the scenario has run.
C10_ScenarioRan == EndToEndRun /\ Len(last_run.emitted) = 2

-----------------------------------------------------------------------------
(* C11..C20 *)

\* the text jobs of a task: one per (target, line), the lines of a target
\* together and in order, the targets in order
TextJobs(label, targets, lines) ==
    [k \in 1..(Len(targets) * Len(lines)) |->
        [label |-> label,
         target_id |-> targets[((k - 1) \div Len(lines)) + 1],
         payload |-> [kind |-> "text", body |-> lines[((k - 1) % Len(lines)) + 1]]]]

LinesOf(run, settings) == _apply_filters_and_prefix_suffix(run.message_text, settings).out

Invocations == {last_run} \cup suspended

\* C12: a task whose control flag is false, or whose outgoing flag is false
\* while the event is outgoing, has put no job on the queue; only tasks with
\* control true and, on an outgoing event, outgoing true contribute jobs.
C12_SwitchedOffTasksEnqueueNothing ==
    \A run \in Invocations :
        /\ \A k \in 1..Len(run.visited) :
              ~Passes(run, run.visited[k].settings)
                 => EmittedFor(run, run.visited[k].label) = <<>>
        /\ \A j \in 1..Len(run.emitted) :
              \E k \in 1..Len(run.visited) :
                  /\ run.visited[k].label = run.emitted[j].label
                  /\ run.visited[k].settings.control
                  /\ run.is_outgoing => run.visited[k].settings.outgoing

\* C12 witness: an outgoing event has been through a task with outgoing off
\* and a task with control off, and the run returned.
C12_BothTogglesSkipped ==
    /\ last_run.result = "returned"
    /\ last_run.is_outgoing
    /\ \E i, k \in 1..Len(last_run.visited) :
          /\ ~last_run.visited[i].settings.outgoing
          /\ ~last_run.visited[k].settings.control

\* C13: for a (user, destination) pair whose first external resolver call
\* succeeded, the external resolver has been called once only, whatever the
\* interleaving of the workers and the background resolution.
C13_ResolverCalledOnce ==
    \A pair \in DOMAIN resolve_log.pairs :
        resolve_log.pairs[pair].first = "ok" => ~resolve_log.pairs[pair].again

\* the (user, destination) pairs the resolution cache holds a handle for
Handles(cache) == UNION {{<<u, t>> : t \in cache[u]} : u \in DOMAIN cache}

\* worker w starts on a text job in this step
TakesTextJob(w) ==
    /\ workers'[w].pc \in {"resolving", "sending"}
    /\ workers'[w].job.payload.kind = "text"
    /\ workers[w].pc \notin Busy \/ workers'[w].job.id # workers[w].job.id

\* C15: a resolve call that misses the cache makes one external attempt; when
\* the attempt fails the call returns none (the worker drops the job, the
\* background resolver goes to sleep) and the cache holds no handle more than
\* before; a resolve call for a pair the cache has no handle for always makes
\* a new external attempt, also after earlier failures.
C15_FailureLeavesPairUnresolved ==
    [][/\ \A w \in WorkerIds :
            /\ (workers[w].pc = "resolving" /\ workers[w].job.id \in dropped' \ dropped)
                  => Handles(target_entity_cache') = Handles(target_entity_cache)
            /\ TakesTextJob(w) =>
                  (workers'[w].pc = "resolving"
                     <=> <<workers'[w].job.user_id, workers'[w].job.target_id>>
                            \notin Handles(target_entity_cache))
       /\ \A u \in DOMAIN resolvers :
            LET r == resolvers[u] IN
            /\ (r.pc = "call" /\ resolvers'[u].pc = "sleep")
                  => /\ Handles(target_entity_cache') = Handles(target_entity_cache)
                     /\ resolvers'[u].tried = r.tried
            /\ (/\ r.pc = "sleep" /\ resolvers'[u].pc # "sleep"
                /\ r.attempt + 1 < RESOLVE_ATTEMPTS
                /\ <<u, r.target_ids[r.ti]>> \notin Handles(target_entity_cache))
                  => /\ resolvers'[u].pc = "call"
                     /\ resolvers'[u].ti = r.ti
                     /\ resolvers'[u].tried[r.ti] = r.tried[r.ti] + 1]_vars

\* C15 witness: the first external attempt for a pair failed, the cache holds
\* no handle for the pair and a later resolve call is in a new attempt for it.
C15_RetryAfterFailure ==
    \E pair \in DOMAIN resolve_log.pairs :
        /\ resolve_log.pairs[pair].first = "failed"
        /\ pair \notin Handles(target_entity_cache)
        /\ \/ \E w \in WorkerIds :
                 /\ workers[w].pc = "resolving"
                 /\ <<workers[w].job.user_id, workers[w].job.target_id>> = pair
           \/ \E u \in DOMAIN resolvers :
                 /\ resolvers[u].pc = "call"
                 /\ resolvers[u].attempt > 0
                 /\ <<u, resolvers[u].target_ids[resolvers[u].ti]>> = pair

\* C16: a background resolver makes at most RESOLVE_ATTEMPTS attempts for a
\* destination and none after one of them returned an entity; when it is done
\* it has attempted every destination of its list, whatever happened to the
\* earlier ones; no step of it changes the task list.
C16_BoundedIndependentAttempts ==
    [][\A u \in DOMAIN resolvers :
          LET r == resolvers[u]
              n == resolvers'[u]
          IN  /\ \A i \in 1..Len(r.target_ids) :
                    /\ n.tried[i] <= RESOLVE_ATTEMPTS
                    /\ n.tried[i] > r.tried[i] => i \notin r.won
              /\ n.pc = "done" => \A i \in 1..Len(n.target_ids) : n.tried[i] >= 1
              /\ n # r => tasks_cache' = tasks_cache]_vars

\* C16 witness: a background resolver is done; it gave up on its first
\* destination after RESOLVE_ATTEMPTS failures and resolved its second one.
C16_GaveUpOnFirstResolvedSecond ==
    \E u \in DOMAIN resolvers :
        /\ resolvers[u].pc = "done"
        /\ resolvers[u].tried[1] = RESOLVE_ATTEMPTS
        /\ 1 \notin resolvers[u].won
        /\ 2 \in resolvers[u].won

\* C14: once the logout or the removal of a user has completed, the
\* resolution cache holds no handle of that user, whatever jobs of the user
\* are still queued or in flight and whatever its background resolver does.
C14_NoHandleOnceDeregistered ==
    \A u \in gone :
        u \in DOMAIN target_entity_cache => target_entity_cache[u] = {}

\* the listeners of a user that receive events
Attached(u) == {l \in listeners : l.user = u /\ l.client \in connected}

\* C17: whatever the sequence of restores, sign-ins and deregistrations, a
\* user has at most one listener attached; ensure_handler_registered_for_user
\* for a user that has a registered listener attaches nothing and changes
\* nothing.
C17_OneListenerPerUser ==
    \A u \in Users :
        /\ Cardinality(Attached(u)) <= 1
        /\ u \in DOMAIN handler_registered =>
              \A c \in connected :
                  /\ ensure_handler_registered_for_user(handler_registered, u, c)
                        = handler_registered
                  /\ AddEventHandler(listeners, handler_registered, u, c) = listeners

\* C18: while a logout or a removal is disconnecting the user's session, the
\* user's listener is detached (unless remove_event_handler raised) and its
\* registry entry removed; once disconnect() has returned or raised, the
\* user's session handle is out of user_clients.
C18_DetachedBeforeDisconnect ==
    /\ dereg.pc = "disconnecting" =>
          /\ dereg.user_id \notin DOMAIN handler_registered
          /\ ~dereg.detach_raised => Attached(dereg.user_id) = {}
    /\ dereg.pc = "saving" => dereg.user_id \notin DOMAIN user_clients

\* the workers that have a job in hand, and the ids of the queued jobs
InHand == {w \in WorkerIds : workers[w].job.id # 0}
QueuedIds == {send_queue[i].id : i \in DOMAIN send_queue}

\* C19: a job is in one place at a time: no two workers have the same job in
\* hand, a job in a worker's hands is not on the queue, the queue holds no job
\* twice, a delivered job is neither queued nor in hand, and every job queued,
\* in hand or delivered was created by the message handler.
C19_JobTakenByOneWorker ==
    /\ \A v, w \in InHand : workers[v].job.id = workers[w].job.id => v = w
    /\ \A w \in InHand : workers[w].job.id \notin QueuedIds
    /\ Cardinality(QueuedIds) = Len(send_queue)
    /\ \A id \in delivered : id \notin QueuedIds /\ \A w \in InHand : workers[w].job.id # id
    /\ \A id \in QueuedIds \cup delivered \cup {workers[w].job.id : w \in InHand} :
           id \in 1 .. next_id - 1

\* two workers have a job each while a job has been delivered
C19_TwoWorkersTwoJobs ==
    /\ Cardinality(InHand) = 2
    /\ delivered # {}

\* C20: once the pool is started a further start_send_workers call changes
\* nothing, and until shutdown_cleanup cancels them exactly SEND_WORKER_COUNT
\* worker loops are running.
C20_PoolStartedOnce ==
    /\ send_workers_started =>
          start_send_workers(WorkerPool) = WorkerPool
    /\ send_workers_started /\ ~cancelled =>
          /\ Len(workers) = SEND_WORKER_COUNT
          /\ \A w \in WorkerIds : workers[w].pc # "stopped"
    /\ ~send_workers_started => workers = <<>>

\* the pool is running and a worker is busy
C20_PoolRunning ==
    /\ send_workers_started /\ ~cancelled
    /\ Len(workers) = SEND_WORKER_COUNT
    /\ \E w \in WorkerIds : workers[w].pc = "sending"

-----------------------------------------------------------------------------
(* C21..C30 *)

\* C21: the step that cancels the workers leaves every worker loop ended, the
\* queue as it was and nothing more delivered; from then on no worker takes a
\* step, the queue keeps its jobs and nothing is delivered.
C21_NothingSentAfterShutdown ==
    [][cancelled' =>
          /\ \A w \in DOMAIN workers' : workers'[w].pc = "stopped"
          /\ send_queue' = send_queue
          /\ delivered' = delivered
          /\ dropped' = dropped
          /\ cancelled => workers' = workers]_vars

\* shutdown with a job on the queue and another in a worker's hands
C21_ShutdownWithJobsPending ==
    /\ cancelled
    /\ send_queue # <<>>
    /\ \E w \in WorkerIds : workers[w].job.id # 0 /\ workers[w].job.id \notin delivered

\* the defaults as documented
DocumentedDefaults ==
    [outgoing |-> TRUE, forward_tag |-> TRUE, control |-> TRUE,
     filters |-> [raw_text |-> FALSE, numbers_only |-> FALSE,
                  alphabets_only |-> FALSE, removed_alphabetic |-> FALSE,
                  removed_numeric |-> FALSE, add_prefix_suffix |-> FALSE],
     prefix |-> <<>>, suffix |-> <<>>]

\* the (user, label) pairs that have settings in the store ts
Stored(ts) == UNION {{<<u, l>> : l \in DOMAIN ts[u]} : u \in DOMAIN ts}

\* C22: get-or-create on the settings store returns the stored settings and
\* leaves the store alone when the entry exists; otherwise it adds the
\* documented defaults for that entry only and returns them.  The settings
\* of a task exist in the store once the handler has evaluated the task and
\* while a toggle of the task is being persisted.
C22_GetOrCreateGivesStoredOrDefaults ==
    /\ \A u \in Users, l \in Labels :
          LET g == GetOrCreate(tasks_settings, u, l) IN
          IF <<u, l>> \in Stored(tasks_settings)
          THEN /\ g.store = tasks_settings
               /\ g.settings = tasks_settings[u][l]
          ELSE /\ g.settings = DocumentedDefaults
               /\ Stored(g.store) = Stored(tasks_settings) \cup {<<u, l>>}
               /\ g.store[u][l] = DocumentedDefaults
               /\ \A p \in Stored(tasks_settings) :
                      g.store[p[1]][p[2]] = tasks_settings[p[1]][p[2]]
    /\ \A i \in DOMAIN last_run.visited :
          <<last_run.user_id, last_run.visited[i].label>> \in Stored(tasks_settings)
    /\ bot.pc = "persisting" => <<bot.user_id, bot.label>> \in Stored(tasks_settings)

\* settings were created with the defaults for a label the user has no task
\* of, next to stored settings that differ from the defaults
C22_CreatedBesideStored ==
    /\ callbacks.n > 0
    /\ \E p \in Stored(tasks_settings) :
          /\ tasks_settings[p[1]][p[2]] = DocumentedDefaults
          /\ p[1] \notin DOMAIN tasks_cache
    /\ \E p \in Stored(tasks_settings) :
          tasks_settings[p[1]][p[2]] # DocumentedDefaults

\* the toggle a button asks for: the task's label and the field of its
\* settings ("" for a field the settings do not have)
Asked(segs) ==
    IF segs[2] = "toggle"
    THEN [label |-> segs[3], filter |-> "",
          field |-> CASE segs[4] = "outgoing" -> "outgoing"
                      [] segs[4] = "forwardtag" -> "forward_tag"
                      [] segs[4] = "control" -> "control"
                      [] OTHER -> ""]
    ELSE [label |-> segs[4], field |-> "",
          filter |-> Underscored(SubSeq(segs, 5, 6))]
Negated(settings, asked) ==
    CASE asked.field = "outgoing" -> [settings EXCEPT !.outgoing = ~@]
      [] asked.field = "forward_tag" -> [settings EXCEPT !.forward_tag = ~@]
      [] asked.field = "control" -> [settings EXCEPT !.control = ~@]
      [] asked.filter # "" -> [settings EXCEPT !.filters[asked.filter] = ~@]
      [] OTHER -> settings

\* store now is store ts with the settings of (u, l) replaced by want and
\* nothing else added, removed or changed
OnlyChanged(ts, now, u, l, want) ==
    /\ <<u, l>> \in Stored(now)
    /\ now[u][l] = want
    /\ Stored(now) \subseteq Stored(ts) \cup {<<u, l>>}
    /\ \A p \in Stored(ts) \ {<<u, l>>} :
          p \in Stored(now) /\ now[p[1]][p[2]] = ts[p[1]][p[2]]

\* C23: a toggle negates the field it names in the settings of its (user,
\* label), created with the defaults when missing, and changes no other field
\* and no other settings; a name that is no field changes no field.  Checked
\* for every press of a toggle button of the task menu, and for
\* _toggle_filter on the store, user, label and key of every press of a
\* filter button (and on the last segment of the key, which is no key).
C23_ToggleNegatesNamedFieldOnly ==
    [][(callbacks'.n # callbacks.n /\ callbacks'.kind = "callback") =>
          LET u     == callbacks'.user_id
              data  == callbacks'.data
              asked == Asked(data)
              was   == GetOrCreate(tasks_settings, u, asked.label).settings
          IN  /\ (Len(data) = 4 /\ data[2] = "toggle") =>
                    OnlyChanged(tasks_settings, tasks_settings', u, asked.label,
                                Negated(was, asked))
              /\ (Len(data) = 6 /\ data[2] = "filters" /\ data[3] = "toggle") =>
                    /\ asked.filter \in DOMAIN was.filters
                    /\ OnlyChanged(tasks_settings,
                                   _toggle_filter(tasks_settings, u, asked.label,
                                                  asked.filter),
                                   u, asked.label, Negated(was, asked))
                    /\ data[6] \notin DOMAIN was.filters
                    /\ OnlyChanged(tasks_settings,
                                   _toggle_filter(tasks_settings, u, asked.label,
                                                  data[6]),
                                   u, asked.label, was)]_vars

\* C23 witness: the control button of task A was pressed and task A's
\* control field is off, its other fields being as they were loaded.
C23_ControlSwitchedOff ==
    /\ callbacks.kind = "callback"
    /\ callbacks.data = <<"task", "toggle", "A", "control">>
    /\ bot.pc = "persisting"
    /\ <<1, "A">> \in Stored(tasks_settings)
    /\ tasks_settings[1]["A"] = [RawText(FALSE) EXCEPT !.control = FALSE]

\* C34: the press of a filter button of the filters menu of task L (callback
\* data task_filters_toggle_<L>_<key>) negates filter <key> of the calling
\* user's task L and adds no settings entry under another label.
C34_FilterButtonFlipsItsFlag ==
    [][(/\ callbacks'.n # callbacks.n
        /\ callbacks'.kind = "callback"
        /\ Len(callbacks'.data) = 6
        /\ callbacks'.data[2] = "filters" /\ callbacks'.data[3] = "toggle")
       => LET u     == callbacks'.user_id
              asked == Asked(callbacks'.data)
              was   == GetOrCreate(tasks_settings, u, asked.label)
          IN  /\ <<u, asked.label>> \in Stored(tasks_settings')
              /\ tasks_settings'[u][asked.label].filters[asked.filter]
                    = ~was.settings.filters[asked.filter]
              /\ \A p \in Stored(tasks_settings') \ Stored(tasks_settings) :
                    p = <<u, asked.label>>]_vars

\* C24: when the awaits that follow a change of settings end, with the write
\* done, failed or never made, the settings in memory are what the change
\* made them; and the handler evaluates every task with the settings that
\* are in memory when the event arrives.
C24_FailedWriteKeepsChange ==
    [][/\ (bot.pc = "persisting" /\ bot'.pc = "idle") =>
             /\ tasks_settings' = tasks_settings
             /\ \A p \in DOMAIN db_written' :
                    \/ p \in DOMAIN db_written /\ db_written'[p] = db_written[p]
                    \/ db_written'[p] = tasks_settings[p[1]][p[2]]
       /\ (events_seen' # events_seen /\ last_run' # last_run) =>
             \A i \in DOMAIN last_run'.visited :
                 last_run'.visited[i].settings =
                    GetOrCreate(tasks_settings, last_run'.user_id,
                                last_run'.visited[i].label).settings]_vars

\* the control toggle of task A was switched off, the write did not succeed,
\* and a later message of task A's source chat was skipped
C24_SkippedAfterFailedWrite ==
    /\ bot.pc = "idle"
    /\ callbacks.kind = "callback"
    /\ <<1, "A">> \notin DOMAIN db_written
    /\ <<1, "A">> \in Stored(tasks_settings)
    /\ ~tasks_settings[1]["A"].control
    /\ last_run.result = "returned"
    /\ last_run.chat_id = 100
    /\ \E i \in DOMAIN last_run.visited :
          last_run.visited[i].label = "A" /\ ~last_run.visited[i].settings.control
    /\ last_run.emitted = <<>>

\* what restore_sessions loads from the snapshot snap
LoadedFrom(snap) ==
    /\ \A u \in DOMAIN snap.tasks :
          /\ u \in DOMAIN tasks_cache
          /\ tasks_cache[u] = [i \in 1..Len(snap.tasks[u]) |-> TaskOf(snap.tasks[u][i])]
          /\ u \in DOMAIN tasks_settings
          /\ \A i \in 1..Len(snap.tasks[u]) :
                 snap.tasks[u][i].label \in DOMAIN tasks_settings[u]
    /\ \A u \in DOMAIN tasks_cache \ DOMAIN snap.tasks : tasks_cache[u] = <<>>

\* C25: as soon as the listener of a restored user is registered, the task
\* list and the settings of every task are loaded from the database, and the
\* pre-resolution task of the user's targets exists when the user has any.
C25_ResolverScheduledBeforeListener ==
    \A l \in listeners :
        /\ send_workers_started
        /\ \E snap \in DbSnapshots : LoadedFrom(snap)
        /\ AllTargets(tasks_cache[l.user]) # {} =>
              /\ l.user \in DOMAIN resolvers
              /\ resolvers[l.user].target_ids = SetToList(AllTargets(tasks_cache[l.user]))

\* two users restored: both listeners registered while both pre-resolution
\* tasks are still to run
C25_TwoRestoredBeforeResolving ==
    /\ Cardinality({l.user : l \in listeners}) = 2
    /\ \A l \in listeners :
          l.user \in DOMAIN resolvers /\ resolvers[l.user].pc = "new"

\* the filter flags of the latest direct call that are on
FlagsOn == {k \in DOMAIN filter_call.settings.filters : filter_call.settings.filters[k]}
Prefixed(t) == filter_call.settings.prefix \o t \o filter_call.settings.suffix

\* C26 as stated: with raw_text on and a non-empty text, whatever the other
\* flags, the result is the one-element list [prefix + text + suffix].
C26_RawTextGivesTheText ==
    (filter_call.called /\ "raw_text" \in FlagsOn /\ filter_call.message_text # <<>>)
    => /\ ~filter_call.result.raised
       /\ filter_call.result.out = <<Prefixed(filter_call.message_text)>>

\* t without the spaces at its start and at its end
Trimmed(t) ==
    IF \A i \in 1..Len(t) : t[i] = " " THEN <<>>
    ELSE LET first == CHOOSE i \in 1..Len(t) :
                         t[i] # " " /\ \A j \in 1..(i - 1) : t[j] = " "
             last  == CHOOSE i \in 1..Len(t) :
                         t[i] # " " /\ \A j \in (i + 1)..Len(t) : t[j] = " "
         IN  SubSeq(t, first, last)

\* C26: with raw_text on and a non-empty text, whatever the other flags, the
\* result is the one-element list [prefix + t + suffix], t being the text
\* without its leading and trailing whitespace.
C26_RawTextGivesTheTrimmedText ==
    (filter_call.called /\ "raw_text" \in FlagsOn /\ filter_call.message_text # <<>>)
    => /\ ~filter_call.result.raised
       /\ filter_call.result.out = <<Prefixed(Trimmed(filter_call.message_text))>>

\* raw_text beside other filters on a text with a space at its start
C26_RawTextBesideOthers ==
    /\ filter_call.called
    /\ {"raw_text", "numbers_only", "removed_alphabetic"} \subseteq FlagsOn
    /\ filter_call.message_text = <<" ", "a", "7">>
    /\ filter_call.settings.prefix # <<>>
    /\ filter_call.result.out = <<Prefixed(<<"a", "7">>)>>

HasDigit(t) == \E i \in 1..Len(t) : t[i] \in Digits

\* C27: with numbers_only as the only filter on, the function returns a list
\* and raises nothing: the empty list for a text without a digit, the whole
\* text (between prefix and suffix) for a text with a digit.
C27_NumbersOnlyAlone ==
    (filter_call.called /\ FlagsOn = {"numbers_only"})
    => /\ ~filter_call.result.raised
       /\ filter_call.result.out =
             IF HasDigit(filter_call.message_text)
             THEN <<Prefixed(Trimmed(filter_call.message_text))>> ELSE <<>>

\* C28: with removed_alphabetic alone the result is the tokens made of
\* letters only, in text order; with removed_numeric alone the tokens made of
\* digits only ("abc 123 def" gives abc, def; "abc 123 456" gives 123, 456).
C28_TokensOfOneKind ==
    /\ (/\ filter_call.called /\ FlagsOn = {"removed_alphabetic"}
        /\ filter_call.message_text = AbcDef)
       => /\ ~filter_call.result.raised
          /\ filter_call.result.out =
                <<Prefixed(<<"a", "b", "c">>), Prefixed(<<"d", "e", "f">>)>>
    /\ (/\ filter_call.called /\ FlagsOn = {"removed_numeric"}
        /\ filter_call.message_text = AbcNumbers)
       => /\ ~filter_call.result.raised
          /\ filter_call.result.out =
                <<Prefixed(<<"1", "2", "3">>), Prefixed(<<"4", "5", "6">>)>>

\* C29: with raw_text off and two filters or more on, the function returns a
\* list in which no string occurs twice.
C29_UnionWithoutDuplicates ==
    (/\ filter_call.called /\ "raw_text" \notin FlagsOn
     /\ Cardinality(FlagsOn \ {"add_prefix_suffix"}) >= 2)
    => /\ ~filter_call.result.raised
       /\ \A i, j \in DOMAIN filter_call.result.out :
              filter_call.result.out[i] = filter_call.result.out[j] => i = j

\* C30: every line of a result is prefix + line + suffix, line being the line
\* the same call gives without prefix and suffix; the result is the same for
\* both values of add_prefix_suffix; the call changes nothing but its result.
C30_PrefixAndSuffixOnEveryLine ==
    [][(filter_call'.called /\ ~filter_call.called) =>
          LET c     == filter_call'
              bare  == _apply_filters_and_prefix_suffix(
                           c.message_text,
                           [c.settings EXCEPT !.prefix = <<>>, !.suffix = <<>>])
              other == _apply_filters_and_prefix_suffix(
                           c.message_text,
                           [c.settings EXCEPT !.filters.add_prefix_suffix = ~@])
          IN  /\ UNCHANGED filterRest
              /\ other = c.result
              /\ ~c.result.raised =>
                    /\ Len(c.result.out) = Len(bare.out)
                    /\ \A i \in DOMAIN c.result.out :
                           c.result.out[i] =
                              c.settings.prefix \o bare.out[i] \o c.settings.suffix]_vars

\* a line returned with a prefix and a suffix while add_prefix_suffix is off
C30_PrefixedWithFlagOff ==
    /\ filter_call.called
    /\ ~filter_call.result.raised
    /\ "add_prefix_suffix" \notin FlagsOn
    /\ filter_call.settings.prefix = <<">">>
    /\ filter_call.settings.suffix = <<"!">>
    /\ filter_call.result.out = <<<<">", "a", "!">>>>

-----------------------------------------------------------------------------
(* C31..C39 *)

\* C32: while jobs are queued (and the pool runs), some worker is not
\* suspended in the put that gives a rate-limited job back to the queue, so
\* the queue keeps being served.
C32_QueueKeepsBeingServed ==
    (send_workers_started /\ ~cancelled /\ send_queue # <<>>) =>
       \E w \in WorkerIds : workers[w].pc # "putting"

\* C33: between two updates, the registered listener of every user with a
\* session handle is attached to that handle, and to no other connected
\* client.
C33_ListenerOnStoredHandle ==
    BotIdle =>
       \A u \in DOMAIN user_clients :
           /\ u \in DOMAIN handler_registered => handler_registered[u] = user_clients[u]
           /\ \A l \in Attached(u) : l.client = user_clients[u]

\* the tasks of user u the persisted data snap holds as active, as the task
\* list keeps them
ActiveTasks(snap, u) == [i \in 1..Len(snap.tasks[u]) |-> TaskOf(snap.tasks[u][i])]

\* C37: between two updates, every user with a session has in its task list
\* every task the persisted data holds as active for it (in behaviours where
\* no task is created or deleted and no user is removed), also after a logout
\* followed by a login.
C37_ActiveTasksInMemory ==
    BotIdle =>
       \A snap \in ResolveSnapshots : \A u \in DOMAIN snap.tasks :
           u \in DOMAIN user_clients =>
              /\ u \in DOMAIN tasks_cache
              /\ \A i \in 1..Len(snap.tasks[u]) :
                     \E j \in 1..Len(tasks_cache[u]) :
                         tasks_cache[u][j] = ActiveTasks(snap, u)[i]

\* C35: a job is sent successfully at most once: a job about to be sent has
\* not been delivered before, one step delivers at most one job, and a
\* delivered job stays delivered and is neither put back on the queue nor kept
\* by a worker.
C35_SentAtMostOnce ==
    [][/\ delivered \subseteq delivered'
       /\ Cardinality(delivered' \ delivered) <= 1
       /\ \A w \in WorkerIds :
             workers[w].pc = "sending" => workers[w].job.id \notin delivered
       /\ \A id \in delivered' :
             /\ \A i \in DOMAIN send_queue' : send_queue'[i].id # id
             /\ \A w \in WorkerIds : workers'[w].job.id # id]_vars

\* C35 witness: a job that a worker put back after a rate limit has been
\* delivered by the other worker.
C35_RequeuedJobDelivered ==
    \E w \in WorkerIds : workers[w].requeued # 0 /\ workers[w].requeued \in delivered

\* the labels of a task list
LabelsOf(tasks) == {tasks[i].label : i \in DOMAIN tasks}

\* C31: in the delete flow an update changes the task lists or the settings
\* store only when it is the Yes of a confirmation keyboard, which exists only
\* for a (user, label) whose label that user typed exactly after pressing
\* Delete; then, unless the database reports nothing deleted, exactly the
\* tasks of that label leave that user's list, with the settings entry of the
\* label, every other task, entry and user being as before.  A name that does
\* not match ends the pending deletion and shows no keyboard; Cancel changes
\* nothing.
C31_DeletedOnlyWhenTypedAndConfirmed ==
    [][callbacks'.n # callbacks.n =>
         LET u    == callbacks'.user_id
             data == callbacks'.data
             yes  == /\ callbacks'.kind = "callback"
                     /\ Len(data) = 4 /\ data[2] = "confirm" /\ data[4] = "yes"
             matched == /\ callbacks'.kind = "text"
                        /\ u \in DOMAIN delete_states
                        /\ data = <<delete_states[u]>>
         IN  /\ (tasks_cache' # tasks_cache \/ tasks_settings' # tasks_settings) =>
                   /\ yes
                   /\ <<u, data[3]>> \in confirm_shown
                   /\ u \in DOMAIN tasks_cache
                   /\ tasks_cache' = [tasks_cache EXCEPT ![u] = WithoutLabel(@, data[3])]
                   /\ data[3] \notin LabelsOf(tasks_cache'[u])
                   /\ u \in DOMAIN tasks_settings
                   /\ tasks_settings' = [tasks_settings EXCEPT ![u] = DictPop(@, data[3])]
                   /\ data[3] \notin DOMAIN tasks_settings'[u]
             /\ confirm_shown' # confirm_shown =>
                   matched /\ confirm_shown' = confirm_shown \cup {<<u, data[1]>>}
             /\ (/\ callbacks'.kind = "text"
                 /\ u \in DOMAIN delete_states
                 /\ ~matched) =>
                   u \notin DOMAIN delete_states' /\ confirm_shown' = confirm_shown]_vars

\* C31 witness: user 1 pressed Yes for task A after typing its name; task A and
\* its settings are gone, task B and its settings are there.
C31_TaskADeleted ==
    /\ callbacks.kind = "callback"
    /\ callbacks.user_id = 1
    /\ callbacks.data = <<"task", "confirm", "A", "yes">>
    /\ <<1, "A">> \in confirm_shown
    /\ 1 \in DOMAIN tasks_cache /\ LabelsOf(tasks_cache[1]) = {"B"}
    /\ 1 \in DOMAIN tasks_settings /\ DOMAIN tasks_settings[1] = {"B"}

\* C38: once a user has answered the delete confirmation, with Yes or with
\* Cancel, the user has no pending delete state; and the word the user sends
\* right after the answer, while /forwadd waits for a task name, is taken as
\* that name.
C38_AnswerEndsThePendingDelete ==
    [][callbacks'.n # callbacks.n =>
         LET u == callbacks'.user_id IN
         /\ (/\ callbacks'.kind = "callback"
             /\ Len(callbacks'.data) = 4 /\ callbacks'.data[2] = "confirm") =>
                u \notin DOMAIN delete_states'
         /\ (/\ callbacks.kind = "callback"
             /\ Len(callbacks.data) = 4 /\ callbacks.data[2] = "confirm"
             /\ callbacks.user_id = u
             /\ callbacks'.kind = "text"
             /\ u \in DOMAIN forwadd_states
             /\ forwadd_states[u].step = "waiting_name") =>
                /\ u \in DOMAIN forwadd_states'
                /\ forwadd_states'[u] = [step |-> "waiting_sources",
                                         name |-> callbacks'.data[1]]]_vars

\* a step of the message handler (a listener is called, or a handler suspended
\* in put runs again), and the frame that ran in it: the one left suspended,
\* otherwise the one recorded as the last run
HandlerStep == events_seen' # events_seen \/ suspended' # suspended
FrameRan == IF suspended' \ suspended # {}
            THEN CHOOSE h \in suspended' \ suspended : TRUE
            ELSE last_run'

\* C36: a step of user U's listener enqueues only jobs owned by U, carrying
\* the client of a listener of U, whose destination is a target of one of U's
\* tasks whose sources contain the event's chat; it takes nothing off the
\* queue and leaves the task lists, the resolution cache and the settings of
\* every other user as they were.
C36_OnlyTheOwnersJobs ==
    [][HandlerStep =>
         LET f == FrameRan
             U == f.user_id
         IN  /\ \E l \in listeners : l.user = U
             /\ Len(send_queue') >= Len(send_queue)
             /\ \A i \in DOMAIN send_queue : send_queue'[i] = send_queue[i]
             /\ \A i \in (Len(send_queue) + 1)..Len(send_queue') :
                   LET job == send_queue'[i] IN
                   /\ job.user_id = U
                   /\ \E l \in listeners : l.user = U /\ l.client = job.client
                   /\ U \in DOMAIN tasks_cache
                   /\ \E k \in DOMAIN tasks_cache[U] :
                         /\ f.chat_id \in tasks_cache[U][k].source_ids
                         /\ \E g \in DOMAIN tasks_cache[U][k].target_ids :
                               tasks_cache[U][k].target_ids[g] = job.target_id
             /\ tasks_cache' = tasks_cache
             /\ target_entity_cache' = target_entity_cache
             /\ DOMAIN tasks_settings' \subseteq DOMAIN tasks_settings \cup {U}
             /\ \A u \in DOMAIN tasks_settings \ {U} :
                   tasks_settings'[u] = tasks_settings[u]]_vars

\* C36 witness: a job of user 2 is queued for the target of user 2's task
\* while user 1 has a task of its own with another source and target.
C36_SecondUsersJobQueued ==
    /\ \E i \in DOMAIN send_queue :
          send_queue[i].user_id = 2 /\ send_queue[i].target_id = 300
    /\ 1 \in DOMAIN tasks_cache
    /\ \E k \in DOMAIN tasks_cache[1] : 200 \in
          {tasks_cache[1][k].target_ids[g] : g \in DOMAIN tasks_cache[1][k].target_ids}

\* C39: the session registry never holds more users than the server accepts.
C39_RegistryWithinCapacity ==
    Cardinality(DOMAIN user_clients) <= MAX_CONCURRENT_USERS

=============================================================================
